---- MODULE Spec2Model ----
(***************************************************************************)
(* Verification model of the go-astits MPEG-TS demuxer: the per-PID        *)
(* reassembly engine (packetPool / packetAccumulator), the PSI completion  *)
(* check, the program map and the Demuxer facade (NextData, updateData).   *)
(***************************************************************************)
EXTENDS Integers, Sequences, FiniteSets, TLC

VARIABLES
    b,           \* packetPool.b: PID -> queue of the packets held (accumulator.q)
    programMap,  \* programMap.p: PMT PID -> program number
    ret,         \* the last call of the engine (or the reader's end of stream): operation, argument, result
    dataBuffer,  \* Demuxer.dataBuffer: the FIFO of pending records
    input,       \* the packets the reader has not delivered yet; empty = end of stream
    pc,          \* where nextData stands: idle (not running), loop, drain
    reads,       \* packets the running nextData has read so far
    out,         \* what the last NextData call returned and how many packets it read
    arrived,     \* history: every record parseData handed to updateData, in order
    delivered,   \* history: every record NextData returned, in order
    noMore,      \* history: NextData has returned ErrNoMorePackets
    ctxDone,           \* Demuxer.ctx is cancelled (ctx.Done() is closed)
    skipErrCounter,    \* packetBuffer.skipErrCounter
    optSkipErrLimit,   \* Demuxer.optSkipErrLimit
    optPacketSkipper,  \* Demuxer.optPacketSkipper: the PIDs whose packets it skips
    optPacketsParser,  \* Demuxer.optPacketsParser: "nil" or the kind of parser set
    reader,            \* Demuxer.r: whether it is an io.Seeker, the packets it holds after Seek(0, 0)
    rewinds,           \* history: the number of Rewind calls
    lent,              \* poolOfPayload: the scratch buffers taken by get and not given back by put
    closed,            \* history: how many of the records delivered the caller has closed
    pb,                \* the packetBuffer being built: the kind of its reader, the bytes it holds, the offset read to
    sp,                \* poolTempPayload.sp: for each bucket, the payloads put and not taken again
    taken              \* the payloads handed out by get that their holders may still put

\* the options of the Demuxer and its reader
optVars == <<optSkipErrLimit, optPacketSkipper, optPacketsParser, reader>>

\* the options of the Demuxer and the state of its context and packet buffer
ctlVars == <<ctxDone, skipErrCounter, rewinds, optVars>>

\* the scratch pool and the records the caller has closed
poolVars == <<lent, closed>>

\* the packet buffer under construction and the size-bucketed scratch pool
utilVars == <<pb, sp, taken>>

vars == <<b, programMap, ret, dataBuffer, input, pc, reads, out, arrived, delivered, noMore,
          ctlVars, poolVars, utilVars>>

demuxVars == <<dataBuffer, input, pc, reads, out, arrived, delivered, noMore, ctlVars, poolVars,
               utilVars>>

(***************************************************************************)
(* Bounds                                                                  *)
(***************************************************************************)
MaxHeld == 3     \* packets held by the whole pool when it is driven directly
MaxReads == 3    \* length of the longest stream the reader delivers
MaxSkipErrLimit == 2   \* the largest skip-error limit the Demuxer is built with
MaxRewinds == 1        \* Rewind calls made on one Demuxer

(***************************************************************************)
(* Program constants                                                       *)
(***************************************************************************)
PIDPAT == 0
PIDCAT == 1
PSITableIDPAT == 0
PSITableIDPMT == 2
PSITableIDST == 114
PSITableIDNull == 255

(***************************************************************************)
(* Payload bytes.  PatWhole is pointer_field 0 followed by one PAT section *)
(* listing program 1 on PMT PID 0x100; PatA \o PatB \o PatC = PatWhole.    *)
(***************************************************************************)
PatA == <<0, 0, 176, 13>>
PatB == <<0, 1, 193, 0, 0, 0, 1>>
PatC == <<225, 0, 232, 249, 94, 125>>
PatAB == PatA \o PatB
PatWhole == PatA \o PatB \o PatC
PatPtr == <<0>>
PatRest == <<0, 176, 13>> \o PatB \o PatC
Stuff == <<255>>

RECURSIVE Concat(_)
\* the bytes of a unit: the payloads of its packets, in list order
Concat(q) == IF q = <<>> THEN <<>> ELSE Head(q).Payload \o Concat(Tail(q))

Last(q) == q[Len(q)]

(***************************************************************************)
(* PSI table ids                                                           *)
(***************************************************************************)
isUnknown(t) ==
    ~ ( t \in {74, 126, 64, 65, PSITableIDNull, PSITableIDPAT, PSITableIDPMT,
               113, 66, 70, 127, PSITableIDST, 112, 115}
        \/ (t >= 78 /\ t <= 111) )

shouldStopPSIParsing(t) == t = PSITableIDNull \/ isUnknown(t)

RECURSIVE psiSections_headerOnly(_, _)
\* mutant: a section counts as present once its length field has been read
psiSections_headerOnly(bs, off) ==
    IF ~(off < Len(bs)) THEN TRUE
    ELSE IF shouldStopPSIParsing(bs[off + 1]) THEN TRUE
    ELSE IF Len(bs) < off + 3 THEN FALSE
    ELSE psiSections_headerOnly(bs, off + 3 + ((bs[off + 2] * 256 + bs[off + 3]) % 4096))

RECURSIVE psiSections(_, _)
\* the section loop of isPSIComplete; off is the iterator's offset
psiSections(bs, off) ==
    IF ~(off < Len(bs)) THEN Len(bs) >= off
    ELSE IF shouldStopPSIParsing(bs[off + 1]) THEN Len(bs) >= off + 1
    ELSE IF Len(bs) < off + 3 THEN FALSE
    ELSE psiSections(bs, off + 3 + ((bs[off + 2] * 256 + bs[off + 3]) % 4096))

\* isPSIComplete: enough packets to parse the PSI payload
isPSIComplete(q) ==
    LET bs == Concat(q)
    IN  IF Len(bs) < 1 THEN FALSE ELSE psiSections(bs, 1 + bs[1])

(***************************************************************************)
(* Program map                                                             *)
(***************************************************************************)
existsUnlocked(pm, pid) == Cardinality(DOMAIN pm) > 0 /\ pid \in DOMAIN pm

setUnlocked(pm, pid, number) ==
    [k \in DOMAIN pm \cup {pid} |-> IF k = pid THEN number ELSE pm[k]]

\* programMap.unsetUnlocked
unsetUnlocked(pm, pid) == [k \in DOMAIN pm \ {pid} |-> pm[k]]

(***************************************************************************)
(* Reassembly engine                                                       *)
(***************************************************************************)
\* mutant: only the discontinuity indicator counts, a skipped counter does not
hasDiscontinuity_flagOnly(pl, p) ==
    p.HasAdaptationField /\ p.DiscontinuityIndicator

hasDiscontinuity(pl, p) ==
    \/ (p.HasAdaptationField /\ p.DiscontinuityIndicator)
    \/ (p.HasPayload /\ p.ContinuityCounter # (pl.ContinuityCounter + 1) % 16)
    \/ (~p.HasPayload /\ p.ContinuityCounter # pl.ContinuityCounter)

\* mutant: a retransmission is recognised by its bytes as well
isSameAsPrevious_bytes(pl, p) ==
    p.HasPayload /\ p.ContinuityCounter = pl.ContinuityCounter /\ p.Payload = pl.Payload

isSameAsPrevious(pl, p) ==
    p.HasPayload /\ p.ContinuityCounter = pl.ContinuityCounter

\* the PIDs on which packetAccumulator.add runs the completion check
psiChecked(pid, pm) == pid = PIDPAT \/ existsUnlocked(pm, pid)

\* mutant: a PUSI packet does not flush what is held
add_noFlush(q, pid, pm, p) ==
    IF q # <<>> /\ isSameAsPrevious(Last(q), p)
    THEN [pl |-> <<>>, q |-> q, released |-> <<>>]
    ELSE LET cleared == IF q # <<>> /\ hasDiscontinuity(Last(q), p) THEN <<>> ELSE q
             mps     == cleared \o <<p>>
         IN  IF psiChecked(pid, pm) /\ isPSIComplete(mps)
             THEN [pl |-> mps, q |-> <<>>, released |-> IF cleared = q THEN <<>> ELSE q]
             ELSE [pl |-> <<>>, q |-> mps, released |-> IF cleared = q THEN <<>> ELSE q]

\* packetAccumulator.add: [pl |-> the unit returned, q |-> the queue kept,
\* released |-> the packets that PacketList.Clear gave back to the packet pool]
add(q, pid, pm, p) ==
    IF q # <<>> /\ isSameAsPrevious(Last(q), p)
    THEN [pl |-> <<>>, q |-> q, released |-> <<>>]
    ELSE LET cleared == IF q # <<>> /\ hasDiscontinuity(Last(q), p) THEN <<>> ELSE q
             flush   == q # <<>> /\ p.PayloadUnitStartIndicator
             pl1     == IF flush THEN cleared ELSE <<>>
             mps     == (IF flush THEN <<>> ELSE cleared) \o <<p>>
         IN  IF psiChecked(pid, pm) /\ isPSIComplete(mps)
             THEN [pl |-> mps, q |-> <<>>, released |-> IF cleared = q THEN <<>> ELSE q]
             ELSE [pl |-> pl1, q |-> mps, released |-> IF cleared = q THEN <<>> ELSE q]

\* an addUnlocked that also takes the packets without payload
addUnlocked_anyPacket(pool, pm, p) ==
    IF p.TransportErrorIndicator THEN [pl |-> <<>>, b |-> pool]
    ELSE LET pid == p.PID
             q   == IF pid \in DOMAIN pool THEN pool[pid] ELSE <<>>
             r   == add(q, pid, pm, p)
         IN  [pl |-> r.pl,
              b  |-> [k \in DOMAIN pool \cup {pid} |-> IF k = pid THEN r.q ELSE pool[k]]]

\* packetPool.addUnlocked: [pl |-> the unit returned, b |-> the pool afterwards]
addUnlocked(pool, pm, p) ==
    IF p.TransportErrorIndicator THEN [pl |-> <<>>, b |-> pool]
    ELSE IF ~p.HasPayload THEN [pl |-> <<>>, b |-> pool]
    ELSE LET pid == p.PID
             q   == IF pid \in DOMAIN pool THEN pool[pid] ELSE <<>>
             r   == add(q, pid, pm, p)
         IN  [pl |-> r.pl,
              b  |-> [k \in DOMAIN pool \cup {pid} |-> IF k = pid THEN r.q ELSE pool[k]]]

RECURSIVE dumpFrom_unsorted(_, _)
\* mutant: the keys are visited in descending order
dumpFrom_unsorted(pool, keys) ==
    IF keys = {} THEN [pl |-> <<>>, b |-> pool]
    ELSE LET k    == CHOOSE x \in keys : \A y \in keys : x >= y
             rest == [j \in DOMAIN pool \ {k} |-> pool[j]]
         IN  IF pool[k] # <<>> THEN [pl |-> pool[k], b |-> rest]
             ELSE dumpFrom_unsorted(rest, keys \ {k})

RECURSIVE dumpFrom(_, _)
\* the loop of dumpUnlocked over the sorted keys still to visit
dumpFrom(pool, keys) ==
    IF keys = {} THEN [pl |-> <<>>, b |-> pool]
    ELSE LET k    == CHOOSE x \in keys : \A y \in keys : x <= y
             rest == [j \in DOMAIN pool \ {k} |-> pool[j]]
         IN  IF pool[k] # <<>> THEN [pl |-> pool[k], b |-> rest]
             ELSE dumpFrom(rest, keys \ {k})

\* mutant: the dump finds nothing and leaves the pool as it is
dumpUnlocked_none(pool) == [pl |-> <<>>, b |-> pool]

\* packetPool.dumpUnlocked
dumpUnlocked(pool) == dumpFrom(pool, DOMAIN pool)

(***************************************************************************)
(* CRC32 of a PSI section (MPEG-2: polynomial 0x04C11DB7, initial value     *)
(* 0xFFFFFFFF, most significant bit first, no final inversion)             *)
(***************************************************************************)
\* exclusive or of two 4-bit numbers x and y: xorTable[x + 1][y + 1]
xorTable == <<
    <<0, 1, 2, 3, 4, 5, 6, 7, 8, 9, 10, 11, 12, 13, 14, 15>>,
    <<1, 0, 3, 2, 5, 4, 7, 6, 9, 8, 11, 10, 13, 12, 15, 14>>,
    <<2, 3, 0, 1, 6, 7, 4, 5, 10, 11, 8, 9, 14, 15, 12, 13>>,
    <<3, 2, 1, 0, 7, 6, 5, 4, 11, 10, 9, 8, 15, 14, 13, 12>>,
    <<4, 5, 6, 7, 0, 1, 2, 3, 12, 13, 14, 15, 8, 9, 10, 11>>,
    <<5, 4, 7, 6, 1, 0, 3, 2, 13, 12, 15, 14, 9, 8, 11, 10>>,
    <<6, 7, 4, 5, 2, 3, 0, 1, 14, 15, 12, 13, 10, 11, 8, 9>>,
    <<7, 6, 5, 4, 3, 2, 1, 0, 15, 14, 13, 12, 11, 10, 9, 8>>,
    <<8, 9, 10, 11, 12, 13, 14, 15, 0, 1, 2, 3, 4, 5, 6, 7>>,
    <<9, 8, 11, 10, 13, 12, 15, 14, 1, 0, 3, 2, 5, 4, 7, 6>>,
    <<10, 11, 8, 9, 14, 15, 12, 13, 2, 3, 0, 1, 6, 7, 4, 5>>,
    <<11, 10, 9, 8, 15, 14, 13, 12, 3, 2, 1, 0, 7, 6, 5, 4>>,
    <<12, 13, 14, 15, 8, 9, 10, 11, 4, 5, 6, 7, 0, 1, 2, 3>>,
    <<13, 12, 15, 14, 9, 8, 11, 10, 5, 4, 7, 6, 1, 0, 3, 2>>,
    <<14, 15, 12, 13, 10, 11, 8, 9, 6, 7, 4, 5, 2, 3, 0, 1>>,
    <<15, 14, 13, 12, 11, 10, 9, 8, 7, 6, 5, 4, 3, 2, 1, 0>> >>

\* exclusive or of two bytes
Xor8(x, y) ==
    16 * xorTable[(x \div 16) + 1][(y \div 16) + 1] + xorTable[(x % 16) + 1][(y % 16) + 1]

\* 32-bit words are kept as <<high 16 bits, low 16 bits>>
Word32 == (0..65535) \X (0..65535)

Xor32(v, w) ==
    << 256 * Xor8(v[1] \div 256, w[1] \div 256) + Xor8(v[1] % 256, w[1] % 256),
       256 * Xor8(v[2] \div 256, w[2] \div 256) + Xor8(v[2] % 256, w[2] % 256) >>

crc32Initial == <<65535, 65535>>

\* the CRC table, entry i at index i + 1
tableCRC32 == <<
    <<0, 0>>, <<1217, 7607>>, <<2434, 15214>>, <<3395, 9945>>,
    <<4868, 30428>>, <<6085, 27499>>, <<6790, 19890>>, <<7751, 20485>>,
    <<9736, 60856>>, <<8905, 61455>>, <<12170, 54998>>, <<11083, 52065>>,
    <<13580, 39780>>, <<12749, 34515>>, <<15502, 40970>>, <<14415, 48573>>,
    <<19473, 56176>>, <<18640, 50887>>, <<17811, 57374>>, <<16722, 64937>>,
    <<24341, 44460>>, <<23508, 45083>>, <<22167, 38594>>, <<21078, 35701>>,
    <<27161, 14024>>, <<28376, 11135>>, <<25499, 3494>>, <<26458, 4113>>,
    <<31005, 16404>>, <<32220, 23971>>, <<28831, 31610>>, <<29790, 26317>>,
    <<38947, 46816>>, <<40162, 43863>>, <<37281, 36238>>, <<38240, 36921>>,
    <<35623, 49212>>, <<36838, 56715>>, <<33445, 64338>>, <<34404, 59109>>,
    <<48683, 23384>>, <<47850, 18159>>, <<47017, 24630>>, <<45928, 32129>>,
    <<44335, 11652>>, <<43502, 12339>>, <<42157, 5866>>, <<41068, 2909>>,
    <<54322, 28048>>, <<53491, 28711>>, <<56752, 22270>>, <<55665, 19273>>,
    <<50998, 6988>>, <<50167, 1787>>, <<52916, 8226>>, <<51829, 15765>>,
    <<62010, 32808>>, <<63227, 40351>>, <<64440, 47942>>, <<65401, 42737>>,
    <<57662, 63220>>, <<58879, 60227>>, <<59580, 52634>>, <<60541, 53293>>,
    <<13446, 28791>>, <<12359, 28096>>, <<15620, 19225>>, <<14789, 22190>>,
    <<10114, 1707>>, <<9027, 6940>>, <<11776, 15813>>, <<10945, 8306>>,
    <<4750, 40399>>, <<5711, 32888>>, <<6924, 42657>>, <<8141, 47894>>,
    <<394, 60179>>, <<1355, 63140>>, <<2056, 53373>>, <<3273, 52682>>,
    <<30871, 43783>>, <<31830, 46768>>, <<28949, 36969>>, <<30164, 36318>>,
    <<27539, 56795>>, <<28498, 49260>>, <<25105, 59061>>, <<26320, 64258>>,
    <<24223, 18111>>, <<23134, 23304>>, <<22301, 32209>>, <<21468, 24678>>,
    <<19867, 12387>>, <<18778, 11732>>, <<17433, 2829>>, <<16600, 5818>>,
    <<44197, 50839>>, <<43108, 56096>>, <<42279, 65017>>, <<41446, 57422>>,
    <<49057, 45131>>, <<47968, 44540>>, <<46627, 35621>>, <<45794, 38546>>,
    <<35501, 11055>>, <<36460, 13976>>, <<33583, 4161>>, <<34798, 3574>>,
    <<39337, 24051>>, <<40296, 16452>>, <<36907, 26269>>, <<38122, 31530>>,
    <<57524, 7655>>, <<58485, 80>>, <<59702, 9865>>, <<60919, 15166>>,
    <<62384, 27451>>, <<63345, 30348>>, <<64050, 20565>>, <<65267, 19938>>,
    <<50876, 61535>>, <<49789, 60904>>, <<53054, 52017>>, <<52223, 54918>>,
    <<54712, 34435>>, <<53625, 39732>>, <<56378, 48621>>, <<55547, 41050>>,
    <<26892, 57582>>, <<28109, 64857>>, <<24718, 56192>>, <<25679, 50743>>,
    <<31240, 38450>>, <<32457, 35717>>, <<29578, 44380>>, <<30539, 45291>>,
    <<20228, 3414>>, <<19397, 4321>>, <<18054, 13880>>, <<16967, 11151>>,
    <<23552, 31626>>, <<22721, 26173>>, <<21890, 16612>>, <<20803, 23891>>,
    <<9501, 15262>>, <<8668, 9769>>, <<11423, 240>>, <<10334, 7495>>,
    <<13849, 19778>>, <<13016, 20725>>, <<16283, 30252>>, <<15194, 27547>>,
    <<789, 54822>>, <<2004, 52113>>, <<2711, 60744>>, <<3670, 61695>>,
    <<4113, 41210>>, <<5328, 48461>>, <<6547, 39828>>, <<7506, 34339>>,
    <<61743, 22030>>, <<62958, 19385>>, <<63661, 28000>>, <<64620, 28887>>,
    <<57899, 8402>>, <<59114, 15717>>, <<60329, 7100>>, <<61288, 1547>>,
    <<55079, 48054>>, <<54246, 42497>>, <<56997, 32984>>, <<55908, 40303>>,
    <<50211, 52586>>, <<49378, 53469>>, <<52641, 62980>>, <<51552, 60339>>,
    <<48446, 36222>>, <<47615, 37065>>, <<46268, 46608>>, <<45181, 43943>>,
    <<44602, 64418>>, <<43771, 58901>>, <<42936, 49356>>, <<41849, 56699>>,
    <<39734, 24774>>, <<40951, 32113>>, <<37556, 23464>>, <<38517, 17951>>,
    <<34866, 5658>>, <<36083, 2989>>, <<33200, 11636>>, <<34161, 12483>>,
    <<23946, 37017>>, <<22859, 36142>>, <<21512, 44023>>, <<20681, 46656>>,
    <<20110, 58949>>, <<19023, 64498>>, <<18188, 56619>>, <<17357, 49308>>,
    <<31618, 32033>>, <<32579, 24726>>, <<29184, 17999>>, <<30401, 23544>>,
    <<26758, 3069>>, <<27719, 5706>>, <<24836, 12435>>, <<26053, 11556>>,
    <<4507, 19433>>, <<5466, 22110>>, <<6169, 28807>>, <<7384, 27952>>,
    <<671, 15669>>, <<1630, 8322>>, <<2845, 1627>>, <<4060, 7148>>,
    <<14227, 42577>>, <<13138, 48102>>, <<15889, 40255>>, <<15056, 32904>>,
    <<9367, 53389>>, <<8278, 52538>>, <<11541, 60387>>, <<10708, 63060>>,
    <<50601, 9849>>, <<49512, 15310>>, <<52267, 7447>>, <<51434, 160>>,
    <<54957, 20645>>, <<53868, 19730>>, <<57135, 27595>>, <<56302, 30332>>,
    <<58273, 52161>>, <<59232, 54902>>, <<59939, 61615>>, <<61154, 60696>>,
    <<61605, 48413>>, <<62564, 41130>>, <<63783, 34419>>, <<64998, 39876>>,
    <<35256, 64777>>, <<36217, 57534>>, <<32826, 50791>>, <<34043, 56272>>,
    <<39612, 35797>>, <<40573, 38498>>, <<37694, 45243>>, <<38911, 44300>>,
    <<44976, 4273>>, <<43889, 3334>>, <<42546, 11231>>, <<41715, 13928>>,
    <<48308, 26221>>, <<47221, 31706>>, <<46390, 23811>>, <<45559, 16564>> >>

\* crc = table[byte ^ (crc >> 24)] ^ (crc << 8), byte after byte
updateCRC32[c \in Word32, bs \in Seq(0..255)] ==
    IF bs = <<>> THEN c
    ELSE updateCRC32[Xor32(tableCRC32[Xor8(Head(bs), c[1] \div 256) + 1],
                           <<((c[1] % 256) * 256) + (c[2] \div 256), (c[2] % 256) * 256>>),
                     Tail(bs)]

computeCRC32(bs) == updateCRC32[crc32Initial, bs]

(***************************************************************************)
(* PSI parsing                                                             *)
(***************************************************************************)
hasPSISyntaxHeader(t) ==
    t = PSITableIDPAT \/ t = PSITableIDPMT \/ t \in {64, 65, 66, 70} \/ (t >= 78 /\ t <= 111)

hasCRC32(t) == hasPSISyntaxHeader(t) \/ t = 115

ParseError == [err |-> TRUE]

RECURSIVE parsePATSection(_, _, _)
\* the PAT body: (program_number, PID) pairs of 4 bytes up to the end of the section
parsePATSection(bs, off, offsetSectionsEnd) ==
    IF ~(off < offsetSectionsEnd) THEN [err |-> FALSE, Programs |-> <<>>]
    ELSE IF Len(bs) < off + 4 THEN [err |-> TRUE, Programs |-> <<>>]
    ELSE LET rest == parsePATSection(bs, off + 4, offsetSectionsEnd)
         IN  [err |-> rest.err,
              Programs |-> << [ProgramNumber |-> bs[off + 1] * 256 + bs[off + 2],
                               ProgramMapID  |-> (bs[off + 3] % 32) * 256 + bs[off + 4]] >>
                           \o rest.Programs]

\* parsePSISection at offset off: the section, whether parsing stops, the new offset
parsePSISection(bs, off) ==
    LET t == bs[off + 1]
    IN  IF shouldStopPSIParsing(t)
        THEN [err |-> FALSE, stop |-> TRUE, off |-> off + 1,
              s |-> [TableID |-> t, hasData |-> FALSE, Programs |-> <<>>]]
        ELSE IF Len(bs) < off + 3 THEN ParseError
        ELSE LET SectionLength       == (bs[off + 2] * 256 + bs[off + 3]) % 4096
                 offsetSectionsStart == off + 3
                 offsetEnd           == offsetSectionsStart + SectionLength
                 offsetSectionsEnd   == IF hasCRC32(t) THEN offsetEnd - 4 ELSE offsetEnd
                 offsetData          == IF hasPSISyntaxHeader(t) THEN offsetSectionsStart + 5
                                        ELSE offsetSectionsStart
                 body == IF t = PSITableIDPAT
                         THEN parsePATSection(bs, offsetData, offsetSectionsEnd)
                         ELSE [err |-> FALSE, Programs |-> <<>>]
             IN  IF SectionLength = 0
                 THEN [err |-> FALSE, stop |-> FALSE, off |-> offsetEnd,
                       s |-> [TableID |-> t, hasData |-> FALSE, Programs |-> <<>>]]
                 ELSE IF hasPSISyntaxHeader(t) /\ Len(bs) < offsetData THEN ParseError
                 ELSE IF body.err THEN ParseError
                 ELSE IF hasCRC32(t) /\ Len(bs) < offsetSectionsEnd + 4 THEN ParseError
                 ELSE IF hasCRC32(t)
                         /\ computeCRC32(SubSeq(bs, off + 1, offsetSectionsEnd))
                              # << bs[offsetSectionsEnd + 1] * 256 + bs[offsetSectionsEnd + 2],
                                    bs[offsetSectionsEnd + 3] * 256 + bs[offsetSectionsEnd + 4] >>
                      THEN ParseError
                 ELSE [err |-> FALSE, stop |-> FALSE, off |-> offsetEnd,
                       s |-> [TableID |-> t, hasData |-> TRUE, Programs |-> body.Programs]]

\* the section loop of parsePSIData, from the iterator's offset off
psiDataSections[bs \in Seq(0..255), off \in Nat] ==
    IF ~(off < Len(bs)) THEN [err |-> FALSE, Sections |-> <<>>]
    ELSE LET r == parsePSISection(bs, off)
         IN  IF r.err THEN [err |-> TRUE, Sections |-> <<>>]
             ELSE IF r.stop THEN [err |-> FALSE, Sections |-> <<r.s>>]
             ELSE LET rest == psiDataSections[bs, r.off]
                  IN  [err |-> rest.err, Sections |-> <<r.s>> \o rest.Sections]

parsePSIData(bs) ==
    IF Len(bs) < 1 THEN [err |-> TRUE, Sections |-> <<>>]
    ELSE psiDataSections[bs, 1 + bs[1]]

\* PSITableID.Type for the tables toData turns into records
tableType(t) ==
    IF t = PSITableIDPAT THEN "PAT" ELSE IF t = PSITableIDPMT THEN "PMT"
    ELSE IF t \in {64, 65} THEN "NIT" ELSE IF t \in {66, 70} THEN "SDT"
    ELSE IF t = 115 THEN "TOT" ELSE IF t >= 78 /\ t <= 111 THEN "EIT" ELSE "none"

RECURSIVE toData(_, _)
\* PSIData.toData: one record for each section that carries a parsed table
toData(sections, pid) ==
    IF sections = <<>> THEN <<>>
    ELSE LET x == Head(sections)
         IN  (IF x.hasData /\ tableType(x.TableID) # "none"
              THEN << [PID |-> pid, type |-> tableType(x.TableID),
                       Programs |-> x.Programs, Data |-> <<>>] >>
              ELSE <<>>) \o toData(Tail(sections), pid)

(***************************************************************************)
(* PES parsing (inputs carry no optional fields in the optional header)    *)
(***************************************************************************)
isPESPayload(bs) == Len(bs) >= 4 /\ bs[1] = 0 /\ bs[2] = 0 /\ bs[3] = 1

hasPESOptionalHeader(streamID) == streamID \div 2 # 95

parsePESData(bs) ==
    IF Len(bs) < 6 THEN [err |-> TRUE, Data |-> <<>>]
    ELSE LET PacketLength == bs[5] * 256 + bs[6]
             dataEnd   == IF PacketLength > 0 THEN 6 + PacketLength ELSE Len(bs)
             optional  == hasPESOptionalHeader(bs[4])
             dataStart == IF optional /\ Len(bs) >= 9 THEN 9 + bs[9] ELSE 6
         IN  IF optional /\ Len(bs) < 9 THEN [err |-> TRUE, Data |-> <<>>]
             ELSE IF dataEnd < dataStart THEN [err |-> TRUE, Data |-> <<>>]
             ELSE IF Len(bs) < dataEnd THEN [err |-> TRUE, Data |-> <<>>]
             ELSE [err |-> FALSE, Data |-> SubSeq(bs, dataStart + 1, dataEnd)]

(***************************************************************************)
(* parseData and updateData                                                *)
(***************************************************************************)
\* an isPSIPayload that does not know the DVB PIDs
isPSIPayload_noDVB(pid, pm) == pid = PIDPAT \/ existsUnlocked(pm, pid)

isPSIPayload(pid, pm) ==
    pid = PIDPAT \/ existsUnlocked(pm, pid)
      \/ ((pid >= 16 /\ pid <= 20) \/ (pid >= 30 /\ pid <= 31))

\* the packets parsers a Demuxer is built with: none; one that returns a record
\* and skip = true; one that returns a record and skip = false; one that
\* returns an error; one that returns an error together with a record
PacketsParsers == {"nil", "skip", "pass", "err", "errRecord"}

\* the call prs(pl) of the custom parser: [ds, skip, err]
customParser(prs, pl) ==
    LET cds == << [PID |-> Head(pl).PID, type |-> "custom", Programs |-> <<>>, Data |-> <<>>] >>
    IN  [ds   |-> IF prs \in {"skip", "pass", "errRecord"} THEN cds ELSE <<>>,
         skip |-> prs = "skip",
         err  |-> prs \in {"err", "errRecord"}]

\* a parseData that never calls the custom parser
parseData_nativeOnly(pl, prs, pm) ==
    LET bs  == Concat(pl)
        pid == Head(pl).PID
    IN  IF pid = PIDCAT THEN [err |-> FALSE, ds |-> <<>>, got |-> TRUE]
        ELSE IF isPSIPayload(pid, pm)
        THEN LET r == parsePSIData(bs)
             IN  IF r.err THEN [err |-> TRUE, ds |-> <<>>, got |-> TRUE]
                 ELSE [err |-> FALSE, ds |-> toData(r.Sections, pid), got |-> TRUE]
        ELSE IF isPESPayload(bs)
        THEN LET r == parsePESData(bs)
             IN  IF r.err THEN [err |-> TRUE, ds |-> <<>>, got |-> TRUE]
                 ELSE [err |-> FALSE, got |-> TRUE,
                       ds |-> << [PID |-> pid, type |-> "PES", Programs |-> <<>>, Data |-> r.Data] >>]
        ELSE [err |-> FALSE, ds |-> <<>>, got |-> TRUE]

\* parseData: [err, ds |-> the records of the unit pl, got |-> a scratch buffer
\* was taken from poolOfPayload].  The custom parser, if there is one, goes
\* first; the native parsers run on the scratch buffer, which holds exactly
\* the GetSize bytes of the payloads (units shorter than 1024 bytes), and
\* overwrite the records of a custom parser that did not skip them.
parseData(pl, prs, pm) ==
    LET c   == customParser(prs, pl)
        ds0 == IF prs = "nil" THEN <<>> ELSE c.ds
        bs  == Concat(pl)
        pid == Head(pl).PID
    IN  IF prs # "nil" /\ c.err THEN [err |-> TRUE, ds |-> c.ds, got |-> FALSE]
        ELSE IF prs # "nil" /\ c.skip THEN [err |-> FALSE, ds |-> c.ds, got |-> FALSE]
        ELSE IF pid = PIDCAT THEN [err |-> FALSE, ds |-> ds0, got |-> TRUE]
        ELSE IF isPSIPayload(pid, pm)
        THEN LET r == parsePSIData(bs)
             IN  IF r.err THEN [err |-> TRUE, ds |-> ds0, got |-> TRUE]
                 ELSE [err |-> FALSE, ds |-> toData(r.Sections, pid), got |-> TRUE]
        ELSE IF isPESPayload(bs)
        THEN LET r == parsePESData(bs)
             IN  IF r.err THEN [err |-> TRUE, ds |-> ds0, got |-> TRUE]
                 ELSE [err |-> FALSE, got |-> TRUE,
                       ds |-> << [PID |-> pid, type |-> "PES", Programs |-> <<>>, Data |-> r.Data] >>]
        ELSE [err |-> FALSE, ds |-> ds0, got |-> TRUE]

RECURSIVE setPrograms_all(_, _)
\* mutant: program number 0 is registered like any other
setPrograms_all(pm, programs) ==
    IF programs = <<>> THEN pm
    ELSE setPrograms_all(setUnlocked(pm, Head(programs).ProgramMapID, Head(programs).ProgramNumber),
                         Tail(programs))

RECURSIVE setPrograms(_, _)
\* the inner loop of updateData over the programs of one PAT
setPrograms(pm, programs) ==
    IF programs = <<>> THEN pm
    ELSE LET pgm == Head(programs)
         IN  setPrograms(IF pgm.ProgramNumber > 0
                         THEN setUnlocked(pm, pgm.ProgramMapID, pgm.ProgramNumber)
                         ELSE pm, Tail(programs))

\* an update that only looks at the record handed to the caller, not at
\* the records that go to the FIFO
updateProgramMap_headOnly(pm, ds) ==
    IF ds = <<>> THEN pm
    ELSE IF Head(ds).type = "PAT" THEN setPrograms(pm, Head(ds).Programs) ELSE pm

RECURSIVE updateProgramMap(_, _)
\* the outer loop of updateData over the records
updateProgramMap(pm, ds) ==
    IF ds = <<>> THEN pm
    ELSE updateProgramMap(IF Head(ds).type = "PAT" THEN setPrograms(pm, Head(ds).Programs) ELSE pm,
                          Tail(ds))

\* mutant: every record is queued, the first one included
updateData_queueAll(buf, pm, ds) ==
    IF ds = <<>> THEN [d |-> <<>>, dataBuffer |-> buf, programMap |-> pm]
    ELSE [d |-> <<Head(ds)>>, dataBuffer |-> buf \o ds,
          programMap |-> updateProgramMap(pm, ds)]

\* Demuxer.updateData: the record returned, the FIFO and the program map afterwards
updateData(buf, pm, ds) ==
    IF ds = <<>> THEN [d |-> <<>>, dataBuffer |-> buf, programMap |-> pm]
    ELSE [d |-> <<Head(ds)>>, dataBuffer |-> buf \o Tail(ds),
          programMap |-> updateProgramMap(pm, ds)]

(***************************************************************************)
(* Inputs of the engine                                                    *)
(***************************************************************************)
Pkt(pid, cc, pusi, hp, tei, af, di, pay) ==
    [PID |-> pid, ContinuityCounter |-> cc, PayloadUnitStartIndicator |-> pusi,
     HasPayload |-> hp, TransportErrorIndicator |-> tei,
     HasAdaptationField |-> af, DiscontinuityIndicator |-> di, Payload |-> pay,
     Defect |-> "none"]

PIDs == {0, 17, 256}

PoolPackets ==
       { Pkt(256, cc, u, TRUE, FALSE, d, d, Stuff) : cc \in {3, 4, 5}, u \in BOOLEAN, d \in BOOLEAN }
  \cup { Pkt(0, cc, TRUE, TRUE, FALSE, FALSE, FALSE, pay) :
            cc \in {15, 0, 1}, pay \in {PatWhole, PatAB, PatA, PatPtr} }
  \cup { Pkt(0, cc, FALSE, TRUE, FALSE, FALSE, FALSE, pay) :
            cc \in {15, 0, 1}, pay \in {PatB, PatC, PatRest} }
  \cup { Pkt(17, cc, u, TRUE, FALSE, FALSE, FALSE, PatWhole) : cc \in {3, 4}, u \in BOOLEAN }
  \cup { Pkt(pid, 3, FALSE, hp, hp, FALSE, FALSE, IF hp THEN Stuff ELSE <<>>) :
            pid \in PIDs, hp \in BOOLEAN }

RECURSIVE Held(_, _)
Held(pool, keys) ==
    IF keys = {} THEN 0
    ELSE LET k == CHOOSE x \in keys : TRUE
         IN  Len(pool[k]) + Held(pool, keys \ {k})

TotalHeld == Held(b, DOMAIN b)

(***************************************************************************)
(* The engine driven directly: packetPool with the demuxer's program map   *)
(***************************************************************************)
NoRet == [op |-> "none", p |-> <<>>, before |-> <<>>, seen |-> FALSE, pl |-> <<>>]

NoOut == [op |-> "none", d |-> <<>>, p |-> <<>>, n |-> 0, err |-> "nil", reads |-> 0,
          afterNoMore |-> FALSE]

\* NewDemuxer without options on a context that is not cancelled
DefaultCtl ==
    /\ ctxDone = FALSE
    /\ skipErrCounter = 0
    /\ optSkipErrLimit = 0
    /\ optPacketSkipper = {}
    /\ optPacketsParser = "nil"

\* no packet buffer has been built
NoBuffer == [kind |-> "none", bytes |-> <<>>, offset |-> 0]

\* the 16 buckets of the scratch pool, with no payload put yet
initPool == [i \in 0..15 |-> {}]

\* no packet read, no unit held, no call made, no option set
Fresh ==
    /\ b = << >>
    /\ programMap = << >>
    /\ ret = NoRet
    /\ dataBuffer = <<>>
    /\ input = <<>>
    /\ reader = [seeker |-> FALSE, bytes |-> <<>>]
    /\ rewinds = 0
    /\ lent = 0
    /\ closed = 0
    /\ pc = "idle"
    /\ reads = 0
    /\ out = NoOut
    /\ arrived = <<>>
    /\ delivered = <<>>
    /\ noMore = FALSE
    /\ DefaultCtl

Init ==
    /\ Fresh
    /\ pb = NoBuffer
    /\ sp = initPool
    /\ taken = {}

AddUnlocked(p) ==
    /\ TotalHeld < MaxHeld
    /\ LET r == addUnlocked(b, programMap, p)
       IN  /\ b' = r.b
           /\ ret' = [op |-> "add", p |-> <<p>>,
                      before |-> IF p.PID \in DOMAIN b THEN b[p.PID] ELSE <<>>,
                      seen |-> p.PID \in DOMAIN b, pl |-> r.pl]
    /\ UNCHANGED <<programMap, demuxVars>>

DumpUnlocked ==
    /\ LET r == dumpUnlocked(b)
       IN  /\ b' = r.b
           /\ ret' = [op |-> "dump", p |-> <<>>, before |-> <<>>, seen |-> FALSE, pl |-> r.pl]
    /\ UNCHANGED <<programMap, demuxVars>>

SetUnlocked(pid, number) ==
    /\ programMap' = setUnlocked(programMap, pid, number)
    /\ ret' = [op |-> "set", p |-> <<>>, before |-> <<>>, seen |-> FALSE, pl |-> <<>>]
    /\ UNCHANGED <<b, demuxVars>>

Next ==
    \/ \E p \in PoolPackets : AddUnlocked(p)
    \/ DumpUnlocked
    \/ SetUnlocked(256, 1)

Spec == Init /\ [][Next]_vars

(***************************************************************************)
(* The Demuxer reading a stream.  The payloads: a PAT with the NIT entry   *)
(* (program 0) and program 1, a PAT table in two sections, a PAT whose     *)
(* CRC32 is wrong, PES packets with stream id 0xBE (no optional header).   *)
(***************************************************************************)
PatNit == <<0, 0, 176, 17, 0, 1, 193, 0, 0, 0, 0, 224, 16, 0, 1, 225, 0, 158, 166, 100, 150>>
PatTwo == <<0, 0, 176, 13, 0, 1, 193, 0, 1, 0, 1, 225, 0, 161, 244, 57, 240,
               0, 176, 13, 0, 1, 193, 1, 1, 0, 2, 225, 1, 188, 116, 220, 182>>
PatBad == <<0, 0, 176, 13, 0, 1, 193, 0, 0, 0, 1, 225, 0, 232, 249, 94, 126>>
PesStart == <<0, 0, 1, 190, 0, 0, 7>>
PesMore == <<8>>
PesShort == <<0, 0, 1, 190, 0, 5, 7>>

DemuxPackets ==
    { Pkt(0, 0, TRUE, TRUE, FALSE, FALSE, FALSE, pay) : pay \in {PatWhole, PatNit, PatTwo, PatAB, PatBad} }
      \cup { Pkt(0, 1, FALSE, TRUE, FALSE, FALSE, FALSE, PatC),
             Pkt(256, 3, TRUE, TRUE, FALSE, FALSE, FALSE, PesStart),
             Pkt(256, 4, FALSE, TRUE, FALSE, FALSE, FALSE, PesMore),
             Pkt(257, 3, TRUE, TRUE, FALSE, FALSE, FALSE, PesStart),
             Pkt(257, 3, TRUE, TRUE, FALSE, FALSE, FALSE, PesShort) }

\* the packets of the streams checked under fairness: a PAT in two sections,
\* an unfinished PAT, PES packets on two PIDs, one of them cut short
FairPackets ==
    { Pkt(0, 0, TRUE, TRUE, FALSE, FALSE, FALSE, PatTwo),
      Pkt(0, 0, TRUE, TRUE, FALSE, FALSE, FALSE, PatAB),
      Pkt(256, 3, TRUE, TRUE, FALSE, FALSE, FALSE, PesStart),
      Pkt(257, 3, TRUE, TRUE, FALSE, FALSE, FALSE, PesStart),
      Pkt(257, 3, TRUE, TRUE, FALSE, FALSE, FALSE, PesShort) }

RECURSIVE Streams(_, _)
\* the streams of at most n packets
Streams(packets, n) ==
    IF n = 0 THEN { <<>> }
    ELSE LET shorter == Streams(packets, n - 1)
         IN  shorter \cup { <<p>> \o t : p \in packets, t \in { x \in shorter : Len(x) = n - 1 } }

\* a new Demuxer on a reader that delivers one of streams and is an
\* io.Seeker or not, as seekers says
NewDemuxer(streams, seekers) ==
    /\ b = << >>
    /\ programMap = << >>
    /\ ret = NoRet
    /\ dataBuffer = <<>>
    /\ input \in streams
    /\ reader \in { [seeker |-> k, bytes |-> IF k THEN input ELSE <<>>] : k \in seekers }
    /\ rewinds = 0
    /\ lent = 0
    /\ closed = 0
    /\ pc = "idle"
    /\ reads = 0
    /\ out = NoOut
    /\ arrived = <<>>
    /\ delivered = <<>>
    /\ noMore = FALSE
    /\ pb = NoBuffer
    /\ sp = initPool
    /\ taken = {}

\* a new Demuxer without options on a context that is never cancelled
InitOn(streams) == NewDemuxer(streams, {FALSE}) /\ DefaultCtl

InitDemux == InitOn(Streams(DemuxPackets, MaxReads))

InitFair == InitOn(Streams(FairPackets, MaxReads))

(***************************************************************************)
(* The packet buffer.  A packet of the stream is the parsed packet plus    *)
(* its Defect: "none", "sync" (the first byte is not the sync byte) or     *)
(* "field" (the adaptation field or the payload overruns the packet).      *)
(***************************************************************************)
\* a Packet.parse that does not call the packet skipper
parse_noSkipper(raw, s) ==
    IF raw.Defect = "none" THEN [skip |-> FALSE, err |-> FALSE]
    ELSE [skip |-> FALSE, err |-> TRUE]

\* Packet.parse: [skip, err]; s is the set of the PIDs the packet skipper skips
parse(raw, s) ==
    IF raw.Defect = "sync" THEN [skip |-> FALSE, err |-> TRUE]
    ELSE IF raw.PID \in s THEN [skip |-> TRUE, err |-> FALSE]
    ELSE IF raw.Defect = "field" THEN [skip |-> FALSE, err |-> TRUE]
    ELSE [skip |-> FALSE, err |-> FALSE]

RECURSIVE next(_, _, _, _)
\* packetBuffer.next on the reader that still holds in: the error, the packet
\* returned (if any), what the reader still holds, the counter
next(in, counter, limit, s) ==
    IF in = <<>>
    THEN [err |-> "ErrNoMorePackets", p |-> <<>>, input |-> in, skipErrCounter |-> counter]
    ELSE LET r == parse(Head(in), s)
         IN  IF r.err
             THEN IF r.skip /\ counter < limit
                  THEN next(Tail(in), counter + 1, limit, s)
                  ELSE [err |-> "building packet failed", p |-> <<>>,
                        input |-> Tail(in), skipErrCounter |-> counter]
             ELSE IF ~r.skip
                  THEN [err |-> "nil", p |-> <<Head(in)>>,
                        input |-> Tail(in), skipErrCounter |-> 0]
                  ELSE next(Tail(in), 0, limit, s)

\* nextData returns the record d (or none) and the error err
Return(d, err, n) ==
    /\ pc' = "idle"
    /\ reads' = 0
    /\ out' = [op |-> "NextData", d |-> d, p |-> <<>>, n |-> 0, err |-> err, reads |-> n,
               afterNoMore |-> noMore]
    /\ delivered' = delivered \o d
    /\ noMore' = (noMore \/ err = "ErrNoMorePackets")

\* nextData goes round one of its loops once more
Continue(n) ==
    /\ reads' = n
    /\ UNCHANGED <<out, delivered, noMore>>

\* NextData that does not look at the context
NextDataCall_noCheck ==
    /\ pc = "idle"
    /\ IF Len(dataBuffer) > 0
       THEN /\ dataBuffer' = Tail(dataBuffer)
            /\ Return(<<Head(dataBuffer)>>, "nil", 0)
       ELSE /\ pc' = "loop"
            /\ Continue(0)
            /\ UNCHANGED dataBuffer
    /\ UNCHANGED <<b, programMap, ret, input, arrived, ctlVars, utilVars, poolVars>>

\* NextData: the error of the context if it is cancelled; otherwise the head
\* of the FIFO if there is one, otherwise the loop over the packets is entered
NextDataCall ==
    /\ pc = "idle"
    /\ IF ctxDone
       THEN /\ Return(<<>>, "context canceled", 0)
            /\ UNCHANGED dataBuffer
       ELSE IF Len(dataBuffer) > 0
       THEN /\ dataBuffer' = Tail(dataBuffer)
            /\ Return(<<Head(dataBuffer)>>, "nil", 0)
       ELSE /\ pc' = "loop"
            /\ Continue(0)
            /\ UNCHANGED dataBuffer
    /\ UNCHANGED <<b, programMap, ret, input, arrived, ctlVars, utilVars, poolVars>>

\* one turn of the packet loop of nextData when the reader delivers a packet;
\* parseData takes a scratch buffer that only a PES record gives back (Close)
ReadPacket ==
    /\ pc = "loop"
    /\ input # <<>>
    /\ \E n \in { next(input, skipErrCounter, optSkipErrLimit, optPacketSkipper) } :
       \E r \in { IF n.p = <<>> THEN [pl |-> <<>>, b |-> b]
                  ELSE addUnlocked(b, programMap, n.p[1]) } :
       \E x \in { IF r.pl = <<>> THEN [err |-> FALSE, ds |-> <<>>, got |-> FALSE]
                  ELSE parseData(r.pl, optPacketsParser, programMap) } :
       \E u \in { updateData(dataBuffer, programMap, IF x.err THEN <<>> ELSE x.ds) } :
          /\ lent' = lent + (IF x.got THEN 1 ELSE 0)
          /\ arrived' = arrived \o (IF x.err THEN <<>> ELSE x.ds)
          /\ input' = n.input
          /\ skipErrCounter' = n.skipErrCounter
          /\ b' = r.b
          /\ ret' = IF n.p = <<>> THEN ret
                    ELSE [op |-> "add", p |-> n.p,
                          before |-> IF n.p[1].PID \in DOMAIN b THEN b[n.p[1].PID] ELSE <<>>,
                          seen |-> n.p[1].PID \in DOMAIN b, pl |-> r.pl]
          /\ dataBuffer' = u.dataBuffer
          /\ programMap' = u.programMap
          /\ LET k == reads + Len(input) - Len(n.input)
             IN  IF n.err = "ErrNoMorePackets" THEN Continue(k) /\ pc' = "drain"
                 ELSE IF n.err # "nil" THEN Return(<<>>, "fetching next packet failed", k)
                 ELSE IF x.err THEN Return(<<>>, "building new data failed", k)
                 ELSE IF u.d # <<>> THEN Return(u.d, "nil", k)
                 ELSE Continue(k) /\ UNCHANGED pc
    /\ UNCHANGED <<ctxDone, rewinds, optVars, utilVars, closed>>

\* the reader returns ErrNoMorePackets: nextData turns to dumping the pool
ReadEOF ==
    /\ pc = "loop"
    /\ input = <<>>
    /\ pc' = "drain"
    /\ ret' = [op |-> "eof", p |-> <<>>, before |-> <<>>, seen |-> FALSE, pl |-> <<>>]
    /\ UNCHANGED <<b, programMap, dataBuffer, input, reads, out, arrived, delivered, noMore,
                   ctlVars, utilVars, poolVars>>

\* a dump loop that returns the error of a unit that fails to parse
DrainStep_returnsError ==
    /\ pc = "drain"
    /\ \E r \in { dumpUnlocked(b) } :
       \E x \in { IF r.pl = <<>> THEN [err |-> FALSE, ds |-> <<>>, got |-> FALSE]
                  ELSE parseData(r.pl, optPacketsParser, programMap) } :
       \E u \in { updateData(dataBuffer, programMap, IF x.err THEN <<>> ELSE x.ds) } :
          /\ lent' = lent + (IF x.got THEN 1 ELSE 0)
          /\ arrived' = arrived \o (IF x.err THEN <<>> ELSE x.ds)
          /\ b' = r.b
          /\ ret' = [op |-> "dump", p |-> <<>>, before |-> <<>>, seen |-> FALSE, pl |-> r.pl]
          /\ dataBuffer' = u.dataBuffer
          /\ programMap' = u.programMap
          /\ IF r.pl = <<>> THEN Return(<<>>, "ErrNoMorePackets", reads)
             ELSE IF x.err THEN Return(<<>>, "building new data failed", reads)
             ELSE IF u.d # <<>> THEN Return(u.d, "nil", reads)
             ELSE Continue(reads) /\ UNCHANGED pc
    /\ UNCHANGED <<input, ctlVars, utilVars, closed>>

\* one turn of the dump loop of nextData; a unit that fails to parse is skipped
DrainStep ==
    /\ pc = "drain"
    /\ \E r \in { dumpUnlocked(b) } :
       \E x \in { IF r.pl = <<>> THEN [err |-> FALSE, ds |-> <<>>, got |-> FALSE]
                  ELSE parseData(r.pl, optPacketsParser, programMap) } :
       \E u \in { updateData(dataBuffer, programMap, IF x.err THEN <<>> ELSE x.ds) } :
          /\ lent' = lent + (IF x.got THEN 1 ELSE 0)
          /\ arrived' = arrived \o (IF x.err THEN <<>> ELSE x.ds)
          /\ b' = r.b
          /\ ret' = [op |-> "dump", p |-> <<>>, before |-> <<>>, seen |-> FALSE, pl |-> r.pl]
          /\ dataBuffer' = u.dataBuffer
          /\ programMap' = u.programMap
          /\ IF r.pl = <<>> THEN Return(<<>>, "ErrNoMorePackets", reads)
             ELSE IF u.d # <<>> THEN Return(u.d, "nil", reads)
             ELSE Continue(reads) /\ UNCHANGED pc
    /\ UNCHANGED <<input, ctlVars, utilVars, closed>>

NextDemux ==
    \/ NextDataCall
    \/ ReadPacket
    \/ ReadEOF
    \/ DrainStep

SpecDemux == InitDemux /\ [][NextDemux]_vars

\* the caller keeps calling NextData and a call that has started keeps running
FairDemux == InitFair /\ [][NextDemux]_vars /\ WF_vars(NextDemux)

(***************************************************************************)
(* The Demuxer on a context that another goroutine may cancel, with        *)
(* NextPacket next to NextData                                             *)
(***************************************************************************)
\* the context of the Demuxer is cancelled
Cancel ==
    /\ ~ctxDone
    /\ ctxDone' = TRUE
    /\ UNCHANGED <<b, programMap, ret, dataBuffer, input, pc, reads, out, arrived, delivered,
                   noMore, skipErrCounter, rewinds, optVars, utilVars, poolVars>>

\* NextPacket (and NextPacketTo): the error of the context if it is cancelled,
\* otherwise the next packet of the packet buffer
NextPacket ==
    /\ pc = "idle"
    /\ \E n \in { IF ctxDone
                   THEN [err |-> "context canceled", p |-> <<>>, input |-> input,
                         skipErrCounter |-> skipErrCounter]
                   ELSE next(input, skipErrCounter, optSkipErrLimit, optPacketSkipper) } :
          /\ input' = n.input
          /\ skipErrCounter' = n.skipErrCounter
          /\ out' = [op |-> "NextPacket", d |-> <<>>, p |-> n.p, n |-> 0,
                     err |-> IF n.err \in {"nil", "ErrNoMorePackets", "context canceled"}
                             THEN n.err ELSE "fetching next packet from buffer failed",
                     reads |-> Len(input) - Len(n.input), afterNoMore |-> noMore]
    /\ UNCHANGED <<b, programMap, ret, dataBuffer, pc, reads, arrived, delivered, noMore,
                   ctxDone, rewinds, optVars, utilVars, poolVars>>

NextCtx ==
    \/ NextDemux
    \/ Cancel
    \/ NextPacket

SpecCtx == InitFair /\ [][NextCtx]_vars

(***************************************************************************)
(* The Demuxer built with DemuxerOptPacketsParser, and the caller closing  *)
(* the records it was given                                                *)
(***************************************************************************)
\* the record d holds a scratch buffer (DemuxerData.internalData): parseData
\* sets it on the PES record only
internalData(d) == d.type = "PES"

\* DemuxerData.Close on the oldest record delivered and not closed yet
Close ==
    /\ pc = "idle"
    /\ closed < Len(delivered)
    /\ closed' = closed + 1
    /\ lent' = lent - (IF internalData(delivered[closed + 1]) THEN 1 ELSE 0)
    /\ UNCHANGED <<b, programMap, ret, dataBuffer, input, pc, reads, out, arrived, delivered,
                   noMore, ctlVars, utilVars>>

DataPackets ==
    { Pkt(0, 0, TRUE, TRUE, FALSE, FALSE, FALSE, PatWhole),
      Pkt(1, 0, TRUE, TRUE, FALSE, FALSE, FALSE, Stuff),
      Pkt(256, 3, TRUE, TRUE, FALSE, FALSE, FALSE, PesStart),
      Pkt(256, 4, TRUE, TRUE, FALSE, FALSE, FALSE, Stuff),
      Pkt(257, 3, TRUE, TRUE, FALSE, FALSE, FALSE, PesShort) }

InitData ==
    /\ NewDemuxer(Streams(DataPackets, MaxReads), {FALSE})
    /\ ctxDone = FALSE
    /\ skipErrCounter = 0
    /\ optSkipErrLimit = 0
    /\ optPacketSkipper = {}
    /\ optPacketsParser \in PacketsParsers

NextData ==
    \/ NextDemux
    \/ Close

SpecData == InitData /\ [][NextData]_vars

(***************************************************************************)
(* The Demuxer with Rewind, on a reader that is an io.Seeker or not        *)
(***************************************************************************)
\* a rewind that fails on a reader that is not an io.Seeker
rewind_failing(rd, in) ==
    IF rd.seeker THEN [n |-> 0, err |-> "nil", input |-> rd.bytes]
    ELSE [n |-> 0, err |-> "reader is not a seeker", input |-> in]

\* rewind on the reader rd that still holds in: Seek(0, 0) on an io.Seeker (the
\* reader holds all its packets again), otherwise n = -1 and no error
rewind(rd, in) ==
    IF rd.seeker THEN [n |-> 0, err |-> "nil", input |-> rd.bytes]
    ELSE [n |-> -1, err |-> "nil", input |-> in]

\* a Rewind that also starts a new program map
Rewind_newProgramMap ==
    /\ pc = "idle"
    /\ rewinds < MaxRewinds
    /\ rewinds' = rewinds + 1
    /\ dataBuffer' = <<>>
    /\ skipErrCounter' = 0
    /\ b' = << >>
    /\ programMap' = << >>
    /\ \E w \in { rewind(reader, input) } :
          /\ input' = w.input
          /\ out' = [op |-> "Rewind", d |-> <<>>, p |-> <<>>, n |-> w.n,
                     err |-> IF w.err = "nil" THEN "nil" ELSE "rewinding reader failed",
                     reads |-> 0, afterNoMore |-> noMore]
    /\ UNCHANGED <<ret, pc, reads, arrived, delivered, noMore, ctxDone, optVars, utilVars,
                   poolVars>>

\* Demuxer.Rewind: the FIFO is emptied, the packet buffer dropped, the packet
\* pool replaced by a new one on the same program map, the reader rewound
Rewind ==
    /\ pc = "idle"
    /\ rewinds < MaxRewinds
    /\ rewinds' = rewinds + 1
    /\ dataBuffer' = <<>>
    /\ skipErrCounter' = 0
    /\ b' = << >>
    /\ \E w \in { rewind(reader, input) } :
          /\ input' = w.input
          /\ out' = [op |-> "Rewind", d |-> <<>>, p |-> <<>>, n |-> w.n,
                     err |-> IF w.err = "nil" THEN "nil" ELSE "rewinding reader failed",
                     reads |-> 0, afterNoMore |-> noMore]
    /\ UNCHANGED <<programMap, ret, pc, reads, arrived, delivered, noMore, ctxDone, optVars, utilVars,
                   poolVars>>

InitRewind == NewDemuxer(Streams(FairPackets, MaxReads), BOOLEAN) /\ DefaultCtl

NextRewind ==
    \/ NextDemux
    \/ Rewind

SpecRewind == InitRewind /\ [][NextRewind]_vars

(***************************************************************************)
(* The Demuxer built with DemuxerOptSkipErrLimit and                       *)
(* DemuxerOptPacketSkipper on a reader that also delivers defective        *)
(* packets                                                                 *)
(***************************************************************************)
Defective(p, kind) == [p EXCEPT !.Defect = kind]

\* PES packets on two PIDs, a packet without the sync byte and a packet of
\* PID 257 whose adaptation field overruns the packet
BufPackets ==
    { Pkt(256, 3, TRUE, TRUE, FALSE, FALSE, FALSE, PesStart),
      Pkt(256, 4, FALSE, TRUE, FALSE, FALSE, FALSE, PesMore),
      Pkt(257, 3, TRUE, TRUE, FALSE, FALSE, FALSE, PesStart),
      Defective(Pkt(256, 5, FALSE, TRUE, FALSE, FALSE, FALSE, PesMore), "sync"),
      Defective(Pkt(257, 4, FALSE, TRUE, FALSE, TRUE, FALSE, PesMore), "field") }

\* the packet skippers: EmptySkipper and one that skips the packets of PID 257
Skippers == { {}, {257} }

InitBuf ==
    /\ NewDemuxer(Streams(BufPackets, MaxReads), {FALSE})
    /\ ctxDone = FALSE
    /\ skipErrCounter = 0
    /\ optSkipErrLimit \in 0..MaxSkipErrLimit
    /\ optPacketSkipper \in Skippers
    /\ optPacketsParser = "nil"

NextBuf ==
    \/ NextDemux
    \/ NextPacket

SpecBuf == InitBuf /\ [][NextBuf]_vars

(***************************************************************************)
(* newPacketBuffer with packet size 0: the detection of the packet size    *)
(* from the first bytes of the reader.  A reader is a *bufio.Reader, an    *)
(* io.Seeker, or neither ("plain"); Read fills the slice with the bytes    *)
(* left and fails with io.EOF when none is left.                           *)
(***************************************************************************)
syncByte == 71
MpegTsPacketSize == 188

\* the byte at index idx of bs, 0 where Read has not written
ByteAt(bs, idx) == IF idx < Len(bs) THEN bs[idx + 1] ELSE 0

\* peek: the bytes copied into a slice of l bytes, the reader's new offset,
\* whether the caller has to rewind, whether reading failed
peek(kind, bytes, l) ==
    IF kind = "bufio"
    THEN [err |-> Len(bytes) < l, shouldRewind |-> FALSE, offset |-> 0,
          bs |-> SubSeq(bytes, 1, IF Len(bytes) < l THEN Len(bytes) ELSE l)]
    ELSE [err |-> Len(bytes) = 0, shouldRewind |-> TRUE,
          offset |-> IF Len(bytes) < l THEN Len(bytes) ELSE l,
          bs |-> SubSeq(bytes, 1, IF Len(bytes) < l THEN Len(bytes) ELSE l)]

\* the scan of autoDetectPacketSize taking only indices above MpegTsPacketSize
autoDetectPacketSize_above(kind, bytes) ==
    LET l  == 193
        pk == peek(kind, bytes, l)
        found == { idx \in (MpegTsPacketSize + 1)..(l - 1) : ByteAt(pk.bs, idx) = syncByte }
    IN  IF pk.err THEN [packetSize |-> 0, err |-> "reading first bytes failed", offset |-> pk.offset]
        ELSE IF ByteAt(pk.bs, 0) # syncByte
        THEN [packetSize |-> 0, err |-> "packet must start with a sync byte", offset |-> pk.offset]
        ELSE IF found = {}
        THEN [packetSize |-> 0, err |-> "only one sync byte detected", offset |-> pk.offset]
        ELSE LET packetSize == CHOOSE idx \in found : \A j \in found : idx <= j
                 ls == packetSize - (l - packetSize)
             IN  IF ~pk.shouldRewind THEN [packetSize |-> packetSize, err |-> "nil", offset |-> pk.offset]
                 ELSE IF kind = "seeker" THEN [packetSize |-> packetSize, err |-> "nil", offset |-> 0]
                 ELSE IF ~(pk.offset < Len(bytes))
                 THEN [packetSize |-> packetSize, err |-> "reading bytes to sync reader failed",
                       offset |-> pk.offset]
                 ELSE [packetSize |-> packetSize, err |-> "nil",
                       offset |-> IF Len(bytes) < pk.offset + ls THEN Len(bytes) ELSE pk.offset + ls]

\* autoDetectPacketSize: the packet size, the error, the reader's offset afterwards
autoDetectPacketSize(kind, bytes) ==
    LET l  == 193
        pk == peek(kind, bytes, l)
        found == { idx \in MpegTsPacketSize..(l - 1) : ByteAt(pk.bs, idx) = syncByte }
    IN  IF pk.err THEN [packetSize |-> 0, err |-> "reading first bytes failed", offset |-> pk.offset]
        ELSE IF ByteAt(pk.bs, 0) # syncByte
        THEN [packetSize |-> 0, err |-> "packet must start with a sync byte", offset |-> pk.offset]
        ELSE IF found = {}
        THEN [packetSize |-> 0, err |-> "only one sync byte detected", offset |-> pk.offset]
        ELSE LET packetSize == CHOOSE idx \in found : \A j \in found : idx <= j
                 ls == packetSize - (l - packetSize)
             IN  IF ~pk.shouldRewind THEN [packetSize |-> packetSize, err |-> "nil", offset |-> pk.offset]
                 ELSE IF kind = "seeker" THEN [packetSize |-> packetSize, err |-> "nil", offset |-> 0]
                 ELSE IF ~(pk.offset < Len(bytes))
                 THEN [packetSize |-> packetSize, err |-> "reading bytes to sync reader failed",
                       offset |-> pk.offset]
                 ELSE [packetSize |-> packetSize, err |-> "nil",
                       offset |-> IF Len(bytes) < pk.offset + ls THEN Len(bytes) ELSE pk.offset + ls]

\* the byte streams detection is run on: they differ in their length, in
\* their first byte and in the places of their sync bytes
StreamLengths == {0, 100, 189, 193, 194, 384}
SyncPlaces == {100, 187, 188, 190, 192, 193}
ReaderKinds == {"bufio", "seeker", "plain"}

ByteStream(len, first, syncs) ==
    [i \in 1..len |-> IF i = 1 THEN first ELSE IF (i - 1) \in syncs THEN syncByte ELSE 0]

InitDetect ==
    /\ Fresh
    /\ pb \in { [kind |-> k, bytes |-> ByteStream(len, first, syncs), offset |-> 0] :
                  k \in ReaderKinds, len \in StreamLengths, first \in {syncByte, 0},
                  syncs \in SUBSET SyncPlaces }
    /\ sp = initPool
    /\ taken = {}

\* newPacketBuffer(r, 0, ...): the packet size is detected
NewPacketBuffer ==
    /\ out.op = "none"
    /\ \E x \in { autoDetectPacketSize(pb.kind, pb.bytes) } :
          /\ pb' = [pb EXCEPT !.offset = x.offset]
          /\ out' = [NoOut EXCEPT !.op = "newPacketBuffer", !.err = x.err,
                                  !.n = IF x.err = "nil" THEN x.packetSize ELSE 0]
    /\ UNCHANGED <<b, programMap, ret, dataBuffer, input, pc, reads, arrived, delivered, noMore,
                   ctlVars, poolVars, sp, taken>>

NextDetect == NewPacketBuffer

SpecDetect == InitDetect /\ [][NextDetect]_vars

(***************************************************************************)
(* The Demuxer reading PSI units with a section whose section_length is    *)
(* 1022: a stuffing table (table id 0x72) alone on the SDT PID, and one    *)
(* behind a whole PAT section on PID 0.                                    *)
(***************************************************************************)
LongST == <<114, 115, 254>>

SectionPackets ==
    { Pkt(0, 0, TRUE, TRUE, FALSE, FALSE, FALSE, PatWhole \o LongST),
      Pkt(0, 0, TRUE, TRUE, FALSE, FALSE, FALSE, PatWhole),
      Pkt(17, 0, TRUE, TRUE, FALSE, FALSE, FALSE, PatPtr \o LongST),
      Pkt(17, 1, TRUE, TRUE, FALSE, FALSE, FALSE, Stuff) }

InitSection == InitOn(Streams(SectionPackets, MaxReads))

SpecSection == InitSection /\ [][NextDemux]_vars

(***************************************************************************)
(* hasDiscontinuity applied to a tail packet and a new packet: every pair  *)
(* of continuity counters, with and without payload, adaptation field and  *)
(* discontinuity indicator.                                                *)
(***************************************************************************)
InitContinuity ==
    /\ b = << >>
    /\ programMap = << >>
    /\ ret = NoRet
    /\ dataBuffer = <<>>
    /\ input \in { << Pkt(256, tcc, FALSE, TRUE, FALSE, FALSE, FALSE, Stuff),
                       Pkt(256, cc, FALSE, hp, FALSE, af, di, IF hp THEN Stuff ELSE <<>>) >> :
                       tcc \in 0..15, cc \in 0..15, hp \in BOOLEAN,
                       af \in BOOLEAN, di \in BOOLEAN }
    /\ reader = [seeker |-> FALSE, bytes |-> <<>>]
    /\ rewinds = 0
    /\ lent = 0
    /\ closed = 0
    /\ pc = "idle"
    /\ reads = 0
    /\ out = NoOut
    /\ arrived = <<>>
    /\ delivered = <<>>
    /\ noMore = FALSE
    /\ DefaultCtl
    /\ pb = NoBuffer
    /\ sp = initPool
    /\ taken = {}

\* hasDiscontinuity(input[1], input[2]) is called
HasDiscontinuity ==
    /\ out.op = "none"
    /\ out' = [NoOut EXCEPT !.op = "hasDiscontinuity", !.p = input,
                            !.d = << hasDiscontinuity(input[1], input[2]) >>]
    /\ UNCHANGED <<b, programMap, ret, dataBuffer, input, pc, reads, arrived, delivered, noMore,
                   ctlVars, poolVars, utilVars>>

NextContinuity == HasDiscontinuity

SpecContinuity == InitContinuity /\ [][NextContinuity]_vars

(***************************************************************************)
(* isPSIPayload applied to the PIDs 0..255, 256 and 8191 under the program *)
(* maps that setUnlocked and unsetUnlocked build on PIDs 1 and 256.        *)
(***************************************************************************)
ClassifiedPIDs == 0..255 \cup {256, 8191}
MappedPIDs == {1, 256}
ProgramNumbers == {0, 1}

\* programMap.unsetUnlocked(pid) is called
UnsetUnlocked(pid) ==
    /\ programMap' = unsetUnlocked(programMap, pid)
    /\ ret' = [NoRet EXCEPT !.op = "unset"]
    /\ UNCHANGED <<b, demuxVars>>

\* isPSIPayload(pid, programMap) is called
IsPSIPayload(pid) ==
    /\ ret' = [NoRet EXCEPT !.op = "isPSIPayload"]
    /\ out' = [NoOut EXCEPT !.op = "isPSIPayload", !.n = pid,
                            !.d = << isPSIPayload(pid, programMap) >>]
    /\ UNCHANGED <<b, programMap, dataBuffer, input, pc, reads, arrived, delivered, noMore,
                   ctlVars, poolVars, utilVars>>

NextClassify ==
    \/ \E pid \in MappedPIDs, number \in ProgramNumbers : SetUnlocked(pid, number)
    \/ \E pid \in MappedPIDs : UnsetUnlocked(pid)
    \/ \E pid \in ClassifiedPIDs : IsPSIPayload(pid)

SpecClassify == Init /\ [][NextClassify]_vars

(***************************************************************************)
(* The Demuxer reading PMT PIDs.  The payloads: a PAT that lists PID 257   *)
(* for program 0 (the NIT) and PID 256 for program 1, and a PMT section    *)
(* without descriptors and streams.  PatTwo lists PID 256 for program 1    *)
(* and PID 257 for program 2, in two sections.                             *)
(***************************************************************************)
PatZero == <<0, 0, 176, 17, 0, 1, 193, 0, 0, 0, 0, 225, 1, 0, 1, 225, 0, 79, 81, 0, 111>>
Pmt == <<0, 2, 176, 13, 0, 1, 193, 0, 0, 225, 0, 240, 0, 101, 245, 31, 55>>

PmtPackets ==
    { Pkt(0, 0, TRUE, TRUE, FALSE, FALSE, FALSE, PatZero),
      Pkt(0, 0, TRUE, TRUE, FALSE, FALSE, FALSE, PatTwo),
      Pkt(256, 3, TRUE, TRUE, FALSE, FALSE, FALSE, Pmt),
      Pkt(256, 4, TRUE, TRUE, FALSE, FALSE, FALSE, Pmt),
      Pkt(257, 3, TRUE, TRUE, FALSE, FALSE, FALSE, Pmt),
      Pkt(256, 4, TRUE, TRUE, FALSE, FALSE, FALSE, PesStart) }

InitPmt == InitOn(Streams(PmtPackets, MaxReads))

SpecPmt == InitPmt /\ [][NextDemux]_vars

(***************************************************************************)
(* The scratch pool: poolTempPayload.get and put on 16 sync.Pools.  A      *)
(* payload is the length and the capacity of its slice.  A sync.Pool hands *)
(* out one of the payloads put into it or a new one, and may drop what is  *)
(* put into it; here it keeps at most MaxPooled payloads over all buckets. *)
(***************************************************************************)
MaxTaken == 2
MaxPooled == 2

RECURSIVE bitsLen(_)
\* bits.Len: the number of bits needed to write x
bitsLen(x) == IF x = 0 THEN 0 ELSE 1 + bitsLen(x \div 2)

\* what sync.Pool.New of bucket i returns
New(i) == [len |-> 0, cap |-> (2 ^ i) * 1024]

\* the bucket get takes a payload of size bytes from (16 and more: none)
getIndex(size) ==
    LET idx == bitsLen(size) - 10
    IN  IF idx >= 0 THEN idx ELSE 0

\* get(size) when the sync.Pool of its bucket hands out the payload c
get(size, c) ==
    IF getIndex(size) < 16
    THEN IF c.cap >= size THEN [c EXCEPT !.len = size] ELSE c
    ELSE [len |-> size, cap |-> size]

\* a put that files a payload in the bucket get would take its capacity from
put_indexOfGet(pools, payload) ==
    LET idx == bitsLen(payload.cap) - 10
    IN  IF idx < 16 /\ idx >= 0
        THEN [pools EXCEPT ![idx] = @ \cup {payload}]
        ELSE pools

\* put(payload): the buckets afterwards
put(pools, payload) ==
    LET idx == bitsLen(payload.cap) - 11
    IN  IF idx < 16 /\ idx >= 0
        THEN [pools EXCEPT ![idx] = @ \cup {payload}]
        ELSE pools

\* the sizes asked for, and payloads that were not made by get
Sizes == {0, 1023, 1024, 2047, 2 ^ 25 - 1, 2 ^ 25, 2 ^ 26}
ForeignPayloads == { [len |-> 1000, cap |-> 1023], [len |-> 10, cap |-> 1500] }

RECURSIVE Pooled(_, _)
\* the number of payloads in the buckets from i on
Pooled(pools, i) == IF i > 15 THEN 0 ELSE Cardinality(pools[i]) + Pooled(pools, i + 1)

\* poolOfPayload.get(size) is called
Get(size) ==
    /\ Cardinality(taken) < MaxTaken
    /\ LET idx == getIndex(size)
       IN  IF idx < 16
           THEN \E c \in sp[idx] \cup {New(idx)}, pooled \in BOOLEAN :
                   /\ pooled => c \in sp[idx]
                   /\ sp' = IF pooled THEN [sp EXCEPT ![idx] = @ \ {c}] ELSE sp
                   /\ taken' = taken \cup {get(size, c)}
                   /\ out' = [NoOut EXCEPT !.op = "get", !.n = size, !.p = <<get(size, c)>>]
           ELSE /\ sp' = sp
                /\ taken' = taken \cup {get(size, New(0))}
                /\ out' = [NoOut EXCEPT !.op = "get", !.n = size, !.p = <<get(size, New(0))>>]
    /\ UNCHANGED <<b, programMap, ret, dataBuffer, input, pc, reads, arrived, delivered, noMore,
                   ctlVars, poolVars, pb>>

\* poolOfPayload.put(payload) is called with a payload that get handed out,
\* or with one made elsewhere
Put(payload) ==
    /\ sp' = IF Pooled(sp, 0) < MaxPooled THEN put(sp, payload) ELSE sp
    /\ taken' = taken \ {payload}
    /\ out' = [NoOut EXCEPT !.op = "put", !.p = <<payload>>]
    /\ UNCHANGED <<b, programMap, ret, dataBuffer, input, pc, reads, arrived, delivered, noMore,
                   ctlVars, poolVars, pb>>

NextScratch ==
    \/ \E size \in Sizes : Get(size)
    \/ \E payload \in taken \cup ForeignPayloads : Put(payload)

SpecScratch == Init /\ [][NextScratch]_vars

TypeOK ==
    /\ DOMAIN b \subseteq 0..8191
    /\ DOMAIN programMap \subseteq 0..8191

(***************************************************************************)
(* Properties of the reassembly engine                                     *)
(***************************************************************************)
Acc(pid) == IF pid \in DOMAIN b THEN b[pid] ELSE <<>>

HasDI(p) == p.HasAdaptationField /\ p.DiscontinuityIndicator

\* p continues the packets held: payload, no error, no discontinuity flag, next counter
InOrder(q, p) ==
    /\ p.HasPayload /\ ~p.TransportErrorIndicator /\ ~HasDI(p)
    /\ q # <<>> => p.ContinuityCounter = (Last(q).ContinuityCounter + 1) % 16

\* C1: on a PID without completion check, an in-order packet makes add yield
\* a unit exactly when it has PUSI and the accumulator was non-empty; the unit
\* is what was held before, and the accumulator then holds only the packet;
\* otherwise nothing is yielded and the packet is appended.
C1_PusiFlush ==
    ret.op = "add" =>
        LET p == ret.p[1]
        IN  (InOrder(ret.before, p) /\ ~psiChecked(p.PID, programMap)) =>
              /\ (ret.pl # <<>>) <=> (p.PayloadUnitStartIndicator /\ ret.before # <<>>)
              /\ ret.pl # <<>> => (ret.pl = ret.before /\ Acc(p.PID) = <<p>>)
              /\ ret.pl = <<>> => Acc(p.PID) = ret.before \o <<p>>

C1_Witness ==
    /\ ret.op = "add" /\ Len(ret.before) >= 2 /\ ret.pl = ret.before
    /\ InOrder(ret.before, ret.p[1]) /\ ~psiChecked(ret.p[1].PID, programMap)
    /\ Acc(ret.p[1].PID) = ret.p

\* C2: a payload packet repeating the continuity counter of the last packet
\* held yields nothing and leaves the accumulator as it was.
C2_DuplicateDropped ==
    ret.op = "add" =>
        LET p == ret.p[1]
        IN  (ret.before # <<>> /\ p.HasPayload
             /\ p.ContinuityCounter = Last(ret.before).ContinuityCounter) =>
              (ret.pl = <<>> /\ Acc(p.PID) = ret.before)

C2_Witness ==
    /\ ret.op = "add" /\ ret.before # <<>>
    /\ ret.p[1].HasPayload /\ ~ret.p[1].TransportErrorIndicator
    /\ ret.p[1].ContinuityCounter = Last(ret.before).ContinuityCounter
    /\ ret.p[1].Payload # Last(ret.before).Payload
    /\ Acc(ret.p[1].PID) = ret.before

\* the case of C3: counter 3 held last, a payload packet with counter 5 added
GapCase ==
    /\ ret.op = "add" /\ ret.before # <<>>
    /\ Last(ret.before).ContinuityCounter = 3
    /\ ret.p[1].ContinuityCounter = 5 /\ ret.p[1].HasPayload

\* C3 as stated: after counters 3 then 5 the accumulator is empty.
C3_EmptyAfterGap == GapCase => Acc(ret.p[1].PID) = <<>>

\* C3 amended: after counters 3 then 5 (no transport error) nothing held before
\* the gap survives: the accumulator holds exactly the second packet, unless
\* that packet alone was yielded at once as a complete PSI payload.
C3_GapKeepsOnlyNewPacket ==
    (GapCase /\ ~ret.p[1].TransportErrorIndicator) =>
        \/ (Acc(ret.p[1].PID) = ret.p /\ ret.pl = <<>>)
        \/ (psiChecked(ret.p[1].PID, programMap) /\ ret.pl = ret.p
              /\ Acc(ret.p[1].PID) = <<>>)

C3_Witness ==
    GapCase /\ ~ret.p[1].TransportErrorIndicator /\ Acc(ret.p[1].PID) = ret.p

\* C4: a payload packet with the discontinuity indicator that repeats the
\* counter of the packet held discards that packet and is itself held alone.
C4_DiscontinuityFlagRestarts ==
    ret.op = "add" =>
        LET p == ret.p[1]
        IN  (ret.before # <<>> /\ p.HasPayload /\ ~p.TransportErrorIndicator /\ HasDI(p)
             /\ p.ContinuityCounter = Last(ret.before).ContinuityCounter) =>
              (Acc(p.PID) = <<p>> /\ ret.pl \in {<<>>, <<p>>})
\* a PSI payload that is exactly pointer_field 0 and one complete PAT section
WellFormedPAT(bs) ==
    /\ Len(bs) >= 4 /\ bs[1] = 0 /\ bs[2] = PSITableIDPAT
    /\ Len(bs) = 4 + ((bs[3] * 256 + bs[4]) % 4096)

IsPrefix(s, t) == Len(s) <= Len(t) /\ s = SubSeq(t, 1, Len(s))

\* the packets of q are in order, carry payload, and only the first has PUSI
UnitRun(q) ==
    /\ q # <<>> /\ Head(q).PayloadUnitStartIndicator
    /\ \A i \in 1..Len(q) : q[i].HasPayload /\ ~q[i].TransportErrorIndicator /\ ~HasDI(q[i])
    /\ \A i \in 2..Len(q) :
          /\ ~q[i].PayloadUnitStartIndicator
          /\ q[i].ContinuityCounter = (q[i-1].ContinuityCounter + 1) % 16

\* the packets of the unit that the packet just added belongs to
UnitOf(r) ==
    IF r.p[1].PayloadUnitStartIndicator THEN r.p ELSE r.before \o r.p

dvbPID(pid) == (pid >= 16 /\ pid <= 20) \/ (pid >= 30 /\ pid <= 31)

\* C6: on a DVB PID the add of the last packet of a complete PSI payload
\* yields that payload.
C6_DVBCompletionChecked ==
    (ret.op = "add" /\ dvbPID(ret.p[1].PID) /\ UnitRun(UnitOf(ret))
       /\ (ret.before # <<>> =>
              ret.p[1].ContinuityCounter = (Last(ret.before).ContinuityCounter + 1) % 16)
       /\ WellFormedPAT(Concat(UnitOf(ret)))) =>
        ret.pl = UnitOf(ret)

\* C7: dump returns the non-empty accumulator of the lowest PID and removes it
\* together with the empty ones below it; with no non-empty accumulator it
\* returns nothing and empties the pool.
C7_DumpAscending ==
    [][ret'.op = "dump" =>
        LET ne == {k \in DOMAIN b : b[k] # <<>>}
        IN  IF ne = {}
            THEN ret'.pl = <<>> /\ DOMAIN b' = {}
            ELSE LET m == CHOOSE x \in ne : \A y \in ne : x <= y
                 IN  /\ ret'.pl = b[m]
                     /\ DOMAIN b' = {k \in DOMAIN b : k > m}
                     /\ \A k \in DOMAIN b' : b'[k] = b[k]]_vars

C7_Witness ==
    /\ ret.op = "dump" /\ ret.pl # <<>> /\ Head(ret.pl).PID = 17
    /\ DOMAIN b = {256} /\ b[256] # <<>>

C9_ArrivalOrder ==
    [][ /\ delivered' \o dataBuffer' = arrived'
        /\ (pc = "idle" /\ dataBuffer # <<>>) =>
              /\ pc' = "idle"
              /\ out'.d = <<Head(dataBuffer)>> /\ dataBuffer' = Tail(dataBuffer)
              /\ out'.reads = 0 /\ input' = input /\ b' = b /\ arrived' = arrived
        /\ arrived' # arrived =>
              /\ pc' = "idle"
              /\ out'.d = <<arrived'[Len(arrived) + 1]>>
              /\ dataBuffer' = SubSeq(arrived', Len(arrived) + 2, Len(arrived')) ]_vars

\* the second record of a two-section PAT came out of the FIFO while the
\* reader still had a packet to deliver
C9_Witness ==
    /\ pc = "idle" /\ out.reads = 0 /\ out.d # <<>> /\ input # <<>>
    /\ Len(delivered) >= 2
    /\ delivered[Len(delivered)].Programs = <<[ProgramNumber |-> 2, ProgramMapID |-> 257]>>
    /\ delivered[Len(delivered) - 1].Programs = <<[ProgramNumber |-> 1, ProgramMapID |-> 256]>>

\* the (program number, PID) pairs of the PAT records among ds
PatPrograms(ds) ==
    { <<ds[i].Programs[j].ProgramNumber, ds[i].Programs[j].ProgramMapID>> :
        <<i, j>> \in { ij \in (DOMAIN ds) \X (1..4) :
                          ds[ij[1]].type = "PAT" /\ ij[2] \in DOMAIN ds[ij[1]].Programs } }

\* C10: every entry x -> n of the program map has n > 0 and comes from a
\* program (n, x) of a PAT record parsed so far; an entry is added or
\* changed only by such a program of a PAT record parsed in that call; no
\* entry is removed.
C10_ProgramMapFromPAT ==
    [][ /\ \A x \in DOMAIN programMap' :
              /\ programMap'[x] > 0
              /\ <<programMap'[x], x>> \in PatPrograms(arrived')
              /\ (x \notin DOMAIN programMap \/ programMap[x] # programMap'[x]) =>
                     <<programMap'[x], x>>
                        \in PatPrograms(SubSeq(arrived', Len(arrived) + 1, Len(arrived')))
        /\ DOMAIN programMap \subseteq DOMAIN programMap' ]_vars

\* a PAT listing program 0 on PID 16 and program 1 on PID 256 was parsed,
\* then a PES record: only PID 256 is in the program map
C10_Witness ==
    /\ <<0, 16>> \in PatPrograms(arrived)
    /\ DOMAIN programMap = {256} /\ programMap[256] = 1
    /\ arrived[Len(arrived)].type = "PES"

(***************************************************************************)
(* Properties of the context, the packet buffer and the options            *)
(***************************************************************************)
\* C11: a NextData or NextPacket call made while the context is cancelled
\* returns the error of the context and no record or packet, reads nothing
\* from the reader and leaves the FIFO (empty or not), the accumulators and
\* the program map as they were.
C11_CancelledCallTouchesNothing ==
    [][ (ctxDone /\ (NextDataCall \/ NextPacket))
          => /\ out'.err = "context canceled"
             /\ out'.d = <<>> /\ out'.p = <<>> /\ out'.reads = 0
             /\ pc' = "idle"
             /\ UNCHANGED <<input, dataBuffer, b, programMap>> ]_vars

\* a cancelled NextData call has returned while the FIFO holds a record and the
\* reader still has a packet
C11_Witness ==
    /\ ctxDone /\ out.op = "NextData" /\ out.err = "context canceled"
    /\ dataBuffer # <<>> /\ input # <<>>

\* C12: when the context is cancelled while a NextData call is between two
\* turns of its dump loop (the unit drained last gave no record), the call
\* returns the error of the context and drains no further accumulator.
C12_DrainLoopChecksContext ==
    [][ (pc = "drain" /\ ret.op = "dump" /\ ctxDone /\ TotalHeld > 0)
          => /\ out'.err = "context canceled"
             /\ pc' = "idle"
             /\ UNCHANGED b ]_vars

\* the errors NextData and NextPacket return when the packet buffer fails
PacketErrors == {"fetching next packet failed", "fetching next packet from buffer failed"}

\* the packet the reader delivers next fails to parse, nothing after it does
OneBadPacketNext ==
    /\ input # <<>>
    /\ parse(Head(input), optPacketSkipper).err
    /\ \A i \in 2..Len(input) : ~parse(input[i], optPacketSkipper).err

\* C13: with fewer than optSkipErrLimit consecutive parse errors counted, a
\* packet that fails to parse is counted and discarded and the next packet is
\* read: the call does not return the error of the packet buffer; a call that
\* returns a packet or a record leaves the counter at 0.
C13_ErrorsBelowLimitAreSkipped ==
    [][ /\ (OneBadPacketNext /\ skipErrCounter < optSkipErrLimit /\ NextPacket)
            => out'.err \notin PacketErrors
        /\ (OneBadPacketNext /\ skipErrCounter < optSkipErrLimit /\ ReadPacket /\ pc' = "idle")
            => out'.err \notin PacketErrors
        /\ ((NextPacket \/ ReadPacket) /\ out' # out /\ out'.err = "nil")
            => skipErrCounter' = 0 ]_vars

\* the first section of the PSI payload bs is whole, carries a CRC32 and the
\* CRC32 stored in it is not the one computed over it
FirstSectionCRCMismatch(bs) ==
    /\ Len(bs) >= 1
    /\ LET off == 1 + bs[1]
       IN  /\ Len(bs) >= off + 3
           /\ hasCRC32(bs[off + 1])
           /\ LET offsetEnd == off + 3 + ((bs[off + 2] * 256 + bs[off + 3]) % 4096)
              IN  /\ offsetEnd >= off + 12
                  /\ Len(bs) >= offsetEnd
                  /\ computeCRC32(SubSeq(bs, off + 1, offsetEnd - 4))
                       # << bs[offsetEnd - 3] * 256 + bs[offsetEnd - 2],
                             bs[offsetEnd - 1] * 256 + bs[offsetEnd] >>

\* C14: when the packet read before the end of the stream completes a PSI unit
\* whose section fails the CRC32 check, NextData does not return an error: it
\* reads on, or returns a record.
C14_CRCMismatchIsNotAnError ==
    [][ (ReadPacket /\ ret'.op = "add" /\ ret'.pl # <<>>
           /\ isPSIPayload(ret'.pl[1].PID, programMap)
           /\ FirstSectionCRCMismatch(Concat(ret'.pl)))
          => (pc' = "idle" => out'.err = "nil") ]_vars

\* a NextData call has returned a record of PID pid
ReturnedRecordOf(pid) ==
    /\ pc = "idle" /\ out.op = "NextData" /\ out.err = "nil"
    /\ out.d # <<>> /\ out.d[1].PID = pid

\* the dump loop has just dropped a unit that failed to parse while the
\* accumulator of the higher PID pid holds a unit that parses into a record
FailedBelowParseable(pid) ==
    /\ pc = "drain" /\ ret.op = "dump" /\ ret.pl # <<>>
    /\ parseData(ret.pl, optPacketsParser, programMap).err
    /\ pid \in DOMAIN b /\ pid > ret.pl[1].PID /\ b[pid] # <<>>
    /\ ~parseData(b[pid], optPacketsParser, programMap).err
    /\ parseData(b[pid], optPacketsParser, programMap).ds # <<>>

\* C15: in the dump loop a unit that fails to parse is dropped without an
\* error being returned and without ending the call, and a parseable unit
\* held for a higher PID is returned by this or a later NextData call.
C15_DrainSkipsFailedUnits ==
    /\ [][ (DrainStep /\ ret'.pl # <<>> /\ parseData(ret'.pl, optPacketsParser, programMap).err)
             => (pc' = "drain" /\ UNCHANGED <<out, delivered, dataBuffer>>) ]_vars
    /\ \A pid \in {256, 257} : FailedBelowParseable(pid) ~> ReturnedRecordOf(pid)

\* the unfinished PAT of PID 0 has been dropped and the dump loop goes on to
\* the PES unit of PID 256
C15_Witness == FailedBelowParseable(256) /\ ret.pl[1].PID = 0

\* C16 (as claimed): Rewind on a reader that is not an io.Seeker returns an
\* error.
C16_RewindFailsWithoutSeeker ==
    [][ (Rewind /\ ~reader.seeker) => out'.err # "nil" ]_vars

\* C16 (amended): Rewind on a reader that is not an io.Seeker returns n = -1
\* and no error; it has emptied the FIFO and the packet pool, and the reader
\* stands where it stood.
C16_RewindWithoutSeekerReturnsMinusOne ==
    [][ (Rewind /\ ~reader.seeker)
          => /\ out'.op = "Rewind" /\ out'.err = "nil" /\ out'.n = -1
             /\ dataBuffer' = <<>> /\ b' = << >>
             /\ UNCHANGED <<input, programMap>> ]_vars

\* Rewind has returned on a reader that is not an io.Seeker and that had
\* delivered a part of its packets
C16_Witness ==
    /\ out.op = "Rewind" /\ ~reader.seeker
    /\ input # <<>> /\ delivered # <<>>

\* C17: once NextData has returned ErrNoMorePackets and the caller has closed
\* every record it was given, every scratch buffer taken from poolOfPayload
\* has been given back.
C17_ScratchBuffersAllReturned ==
    (noMore /\ closed = Len(delivered)) => lent = 0

\* the stream in without the packets the packet skipper s is asked about and
\* answers true for
Filter(in, s) == SelectSeq(in, LAMBDA p : ~(p.Defect # "sync" /\ p.PID \in s))

\* C18: a packet the packet skipper answers true for is not returned by
\* NextPacket and not added to the packet pool; the packet buffer reads on to
\* the next packet that is not skipped or to the end of the stream, and hands
\* out what it would hand out on the stream without the skipped packets.
C18_SkippedPacketsAreInvisible ==
    /\ [][ ((NextPacket \/ ReadPacket) /\ ~ctxDone) =>
             LET n == next(input, skipErrCounter, optSkipErrLimit, optPacketSkipper)
                 m == next(Filter(input, optPacketSkipper), skipErrCounter, optSkipErrLimit, {})
             IN  /\ \A i \in 1..Len(n.p) : n.p[i].PID \notin optPacketSkipper
                 /\ n.p = m.p /\ n.err = m.err
                 /\ Filter(n.input, optPacketSkipper) = m.input
                 /\ n.err = "ErrNoMorePackets" => n.input = <<>>
                 /\ input' = n.input
                 /\ NextPacket => out'.p = n.p
                 /\ (ReadPacket /\ n.p # <<>>) => (ret'.op = "add" /\ ret'.p = n.p)
                 /\ (ReadPacket /\ n.p = <<>>) => UNCHANGED b ]_vars
    /\ [](DOMAIN b \cap optPacketSkipper = {})

\* NextPacket has read over a skipped packet and returned the packet after it
C18_Witness ==
    /\ optPacketSkipper # {}
    /\ out.op = "NextPacket" /\ out.err = "nil" /\ out.reads >= 2
    /\ out.p # <<>> /\ out.p[1].PID \notin optPacketSkipper

\* a turn of nextData in which the pool has handed out a unit
UnitParsed == (ReadPacket \/ DrainStep) /\ ret'.pl # <<>>

\* the custom parser has asked to skip the native parsers: parseData returns
\* the parser's records and no error without taking a scratch buffer, and
\* NextData returns the first of them
SkipCase ==
    LET c == customParser(optPacketsParser, ret'.pl)
        x == parseData(ret'.pl, optPacketsParser, programMap)
    IN  /\ ~x.err /\ x.ds = c.ds /\ ~x.got
        /\ lent' = lent
        /\ arrived' = arrived \o c.ds
        /\ pc' = "idle" /\ out'.err = "nil" /\ out'.d = <<c.ds[1]>>

\* the custom parser has failed: parseData returns an error without taking a
\* scratch buffer, no record reaches the FIFO or the caller, and the packet
\* loop returns the error
ErrCase ==
    LET x == parseData(ret'.pl, optPacketsParser, programMap)
    IN  /\ x.err /\ ~x.got
        /\ lent' = lent
        /\ UNCHANGED <<arrived, dataBuffer, delivered>>
        /\ ReadPacket => (pc' = "idle" /\ out'.err = "building new data failed" /\ out'.d = <<>>)

C20_AccumulatorIsOnePIDRun ==
    \A pid \in DOMAIN b :
       /\ \A i \in 1..Len(b[pid]) : b[pid][i].PID = pid /\ b[pid][i].HasPayload
       /\ \A i \in 2..Len(b[pid]) :
             b[pid][i].ContinuityCounter = (b[pid][i - 1].ContinuityCounter + 1) % 16

\* an accumulator holds three packets whose counters wrap from 15 to 0
C20_Witness ==
    \E pid \in DOMAIN b :
       /\ Len(b[pid]) = 3
       /\ b[pid][1].ContinuityCounter = 15
       /\ b[pid][2].ContinuityCounter = 0

\* the first byte of the stream is a sync byte and the next sync byte is at index k
NextSyncAt(k) ==
    /\ ByteAt(pb.bytes, 0) = syncByte
    /\ ByteAt(pb.bytes, k) = syncByte
    /\ \A j \in 1..(k - 1) : ByteAt(pb.bytes, j) # syncByte

\* detection fails on a stream that does not start with a sync byte or has no
\* sync byte at an index in 188..192
DetectionFailsWithoutSync ==
    /\ ByteAt(pb.bytes, 0) # syncByte => out.err # "nil"
    /\ (\A idx \in 188..192 : ByteAt(pb.bytes, idx) # syncByte) => out.err # "nil"

\* C21 (as stated): on a stream whose byte 0 is 0x47 and whose next 0x47 is at
\* index k with 188 <= k <= 192, detection returns packet size k, whatever the
\* reader and the length of the stream; it fails when byte 0 is not 0x47 and
\* when no 0x47 is at an index in 188..192.
C21_DetectsAnyStream ==
    out.op = "newPacketBuffer" =>
        /\ \A k \in 188..192 : NextSyncAt(k) => (out.err = "nil" /\ out.n = k)
        /\ DetectionFailsWithoutSync

\* C21 (amended): detection returns packet size k on such a stream when the
\* reader can deliver what detection reads: 193 bytes to peek at for a
\* *bufio.Reader, and one byte more than the 193 read for a reader that is
\* neither a *bufio.Reader nor an io.Seeker; it fails when byte 0 is not 0x47
\* and when no 0x47 is at an index in 188..192.
C21_DetectsPacketSize ==
    out.op = "newPacketBuffer" =>
        /\ \A k \in 188..192 :
              (/\ NextSyncAt(k)
               /\ pb.kind = "bufio" => Len(pb.bytes) >= 193
               /\ pb.kind = "plain" => Len(pb.bytes) > 193)
                => (out.err = "nil" /\ out.n = k)
        /\ DetectionFailsWithoutSync

C21_Witness ==
    /\ out.op = "newPacketBuffer"
    /\ NextSyncAt(190)
    /\ pb.kind = "plain"
    /\ out.err = "nil"
    /\ out.n = 190

RECURSIVE LongSectionFrom(_, _)
\* a section header that parsePSIData reaches from offset off declares a
\* section_length above 1021
LongSectionFrom(bs, off) ==
    /\ off < Len(bs)
    /\ ~shouldStopPSIParsing(bs[off + 1])
    /\ Len(bs) >= off + 3
    /\ LET SectionLength == (bs[off + 2] * 256 + bs[off + 3]) % 4096
       IN  SectionLength > 1021 \/ LongSectionFrom(bs, off + 3 + SectionLength)

\* C22: parsing a PSI unit that holds a section whose section_length field
\* exceeds 1021 fails with an error.
C22_LongSectionIsRejected ==
    [][ (/\ ret' # ret
         /\ ret'.pl # <<>>
         /\ isPSIPayload(ret'.pl[1].PID, programMap)
         /\ Len(Concat(ret'.pl)) >= 1
         /\ LongSectionFrom(Concat(ret'.pl), 1 + Concat(ret'.pl)[1]))
          => parseData(ret'.pl, optPacketsParser, programMap).err ]_vars

\* a packet that addUnlocked throws away
Dropped(p) == p.TransportErrorIndicator \/ ~p.HasPayload

\* C23: adding a packet that has the transport error indicator set or has no
\* payload returns no unit and leaves the pool as it was: no accumulator is
\* created, emptied or extended, and the accumulator of its PID, whose last
\* packet later continuity checks compare with, does not hold the packet.
C23_DroppedPacketLeavesPool ==
    [][ (ret'.op = "add" /\ Dropped(ret'.p[1])) =>
            /\ ret'.pl = <<>>
            /\ b' = b
            /\ DOMAIN b' = DOMAIN b
            /\ LET pid == ret'.p[1].PID
                   q   == IF pid \in DOMAIN b' THEN b'[pid] ELSE <<>>
               IN  /\ q = ret'.before
                   /\ \A i \in DOMAIN q : q[i] # ret'.p[1] ]_vars

\* a packet without payload whose counter is not the tail's has been added to
\* a PID that holds packets, and a packet with the error indicator to a PID
\* never seen
C23_Witness ==
    /\ ret.op = "add"
    /\ Dropped(ret.p[1])
    /\ \/ /\ ~ret.p[1].HasPayload
          /\ ret.before # <<>>
          /\ Last(ret.before).ContinuityCounter # ret.p[1].ContinuityCounter
          /\ b[ret.p[1].PID] = ret.before
       \/ /\ ret.p[1].TransportErrorIndicator
          /\ ~ret.seen
          /\ ret.p[1].PID \notin DOMAIN b
          /\ b # << >>

\* C24: hasDiscontinuity(tail, p) is true exactly when p has an adaptation
\* field with the discontinuity indicator set, or p has payload and its
\* counter is not the tail's plus 1 modulo 16, or p has no payload and its
\* counter is not the tail's; so counter 0 with payload after 15 is
\* continuous, and so is a packet without payload that repeats the counter.
C24_DiscontinuityTable ==
    out.op = "hasDiscontinuity" =>
        LET tail == out.p[1].ContinuityCounter
            p    == out.p[2]
            cc   == p.ContinuityCounter
            following == IF tail = 15 THEN 0 ELSE tail + 1
            flagged   == p.HasAdaptationField /\ p.DiscontinuityIndicator
        IN  /\ out.d[1] <=> (flagged \/ (IF p.HasPayload THEN cc # following ELSE cc # tail))
            /\ (p.HasPayload /\ ~flagged /\ tail = 15 /\ cc = 0) => ~out.d[1]
            /\ (~p.HasPayload /\ ~flagged /\ cc = tail) => ~out.d[1]

C24_Witness ==
    /\ out.op = "hasDiscontinuity"
    /\ out.p[1].ContinuityCounter = 15
    /\ out.p[2].ContinuityCounter = 0
    /\ out.p[2].HasPayload
    /\ ~out.p[2].HasAdaptationField
    /\ out.d = <<FALSE>>

\* the add recorded in r put a payload packet whose counter is neither the
\* tail's nor the one after it on an accumulator that held packets
GapOf(r) ==
    /\ r.op = "add"
    /\ r.before # <<>>
    /\ r.p[1].HasPayload
    /\ ~r.p[1].TransportErrorIndicator
    /\ r.p[1].ContinuityCounter # Last(r.before).ContinuityCounter
    /\ r.p[1].ContinuityCounter # (Last(r.before).ContinuityCounter + 1) % 16

\* the packet that follows p in order on its PID, starting a unit or not
Following(p, pusi) ==
    Pkt(p.PID, (p.ContinuityCounter + 1) % 16, pusi, TRUE, FALSE, FALSE, FALSE, Stuff)

\* what the gap packet of the add recorded in ret leaves behind: nothing held
\* before it is yielded or kept
GapReleasesHeld ==
    /\ \A i \in DOMAIN ret.pl : ret.pl[i] = ret.p[1]
    /\ \A i \in DOMAIN Acc(ret.p[1].PID) : Acc(ret.p[1].PID)[i] = ret.p[1]
    /\ Len(ret.pl) + Len(Acc(ret.p[1].PID)) = 1

\* the units that the next in-order packets yield after the gap packet of the
\* add recorded in ret: a packet starting a unit yields the gap packet, and
\* after one more packet in order it yields the two
GapPacketStartsUnit ==
    LET g  == ret.p[1]
        p2 == Following(g, FALSE)
        r1 == addUnlocked(b, programMap, Following(g, TRUE))
        r2 == addUnlocked(b, programMap, p2)
        r3 == addUnlocked(r2.b, programMap, Following(p2, TRUE))
    IN  /\ Acc(g.PID) = <<g>>
        /\ r1.pl = <<g>>
        /\ r2.pl = <<>>
        /\ r3.pl = <<g, p2>>

C26_PSIClassification ==
    ret.op = "isPSIPayload" =>
        LET pid == out.n
        IN  /\ out.d[1] <=> (\/ pid = 0
                             \/ pid \in DOMAIN programMap
                             \/ pid \in 16..20
                             \/ pid \in 30..31)
            /\ (programMap = << >> /\ pid \in 0..255)
                  => (out.d[1] <=> pid \in {0, 16, 17, 18, 19, 20, 30, 31})
            /\ \A number \in ProgramNumbers :
                  (pid \in DOMAIN programMap /\ programMap[pid] = number) => out.d[1]

\* PID 1, stored with program number 0, has been classified as PSI
C26_Witness ==
    /\ ret.op = "isPSIPayload"
    /\ out.n = 1
    /\ 1 \in DOMAIN programMap
    /\ programMap[1] = 0
    /\ out.d = <<TRUE>>

\* the records that the step appends to the records parsed so far
NewRecords == SubSeq(arrived', Len(arrived) + 1, Len(arrived'))

\* the step parses a unit: the one an add or a dump has just handed out
ParsesUnit ==
    /\ ret'.pl # <<>>
    /\ \/ (pc = "loop" /\ input' # input /\ ret'.op = "add")
       \/ (pc = "drain" /\ ret'.op = "dump")

\* C27: the PMT PIDs of a PAT are in the program map as soon as its unit is
\* parsed, also while records of the unit wait in the FIFO, and stay there;
\* a packet added on a PID in the program map undergoes the PSI completion
\* check, and a unit of such a PID is parsed as PSI; a unit of a PID that is
\* neither in the program map nor PID 0 nor a DVB PID is not.
C27_ProgramMapTakesEffectAtOnce ==
    [][ /\ \A i \in DOMAIN NewRecords : \A j \in DOMAIN NewRecords[i].Programs :
              (NewRecords[i].type = "PAT" /\ NewRecords[i].Programs[j].ProgramNumber > 0)
                => NewRecords[i].Programs[j].ProgramMapID \in DOMAIN programMap'
        /\ \A pid \in DOMAIN programMap : pid \in DOMAIN programMap'
        /\ (pc = "loop" /\ input' # input /\ ret'.op = "add") =>
              LET p == ret'.p[1]
                  q == ret'.before
              IN  /\ (/\ p.PID \in DOMAIN programMap
                      /\ ~Dropped(p)
                      /\ q # <<>> => ~isSameAsPrevious(Last(q), p)
                      /\ p.PayloadUnitStartIndicator \/ q = <<>>
                      /\ isPSIComplete(<<p>>))
                       => (ret'.pl = <<p>> /\ b'[p.PID] = <<>>)
                  /\ (p.PID \notin DOMAIN programMap /\ p.PID # PIDPAT /\ q = <<>>)
                       => ret'.pl = <<>>
        /\ ParsesUnit =>
              LET pid == ret'.pl[1].PID
                  psi == parsePSIData(Concat(ret'.pl))
              IN  /\ pid \in DOMAIN programMap =>
                        /\ \A i \in DOMAIN NewRecords : NewRecords[i].type # "PES"
                        /\ ~psi.err => NewRecords = toData(psi.Sections, pid)
                        /\ psi.err => NewRecords = <<>>
                  /\ (pid \notin DOMAIN programMap /\ ~isPSIPayload(pid, << >>)) =>
                        \A i \in DOMAIN NewRecords : NewRecords[i].type = "PES" ]_vars

\* a PMT record of PID 256 has been parsed from a packet that was handed out
\* by the add that took it, after a PAT had listed PID 256
C27_Witness ==
    /\ ret.op = "add"
    /\ ret.pl = ret.p
    /\ ret.p[1].PID = 256
    /\ 256 \in DOMAIN programMap
    /\ arrived # <<>>
    /\ Last(arrived).type = "PMT"
    /\ Last(arrived).PID = 256

\* C28: whatever get and put calls came before, get(n) returns a payload of
\* length n and of capacity at least n; every payload in bucket i has a
\* capacity of at least 1024 whose bit length is i + 11, which is at least
\* any size that get serves from bucket i.
C28_GetReturnsRequestedLength ==
    /\ out.op = "get" => (out.p[1].len = out.n /\ out.p[1].cap >= out.n)
    /\ \A i \in 0..15 : \A c \in sp[i] :
          /\ c.cap >= 1024
          /\ bitsLen(c.cap) - 11 = i
          /\ \A size \in Sizes : getIndex(size) = i => c.cap >= size

\* a payload of capacity 1500 put by a caller has been handed out for a
\* request of 1023 bytes
C28_Witness ==
    /\ out.op = "get"
    /\ out.n = 1023
    /\ out.p = << [len |-> 1023, cap |-> 1500] >>

\* the case of C29: the add recorded in ret put a packet that starts a unit
\* and alone is a complete PSI payload on an accumulator that held packets,
\* on a PID subject to the completion check
WholeUnitOnHeld ==
    /\ ret.op = "add"
    /\ ret.before # <<>>
    /\ ~Dropped(ret.p[1])
    /\ ret.p[1].PayloadUnitStartIndicator
    /\ psiChecked(ret.p[1].PID, programMap)
    /\ isPSIComplete(ret.p)

\* an add yields at most one unit: nothing, the packets held before, or a
\* run that ends with the packet added
OneUnit ==
    ret.op = "add" => (ret.pl = <<>> \/ ret.pl = ret.before \/ Last(ret.pl) = ret.p[1])

\* C29 (as stated): an add yields at most one unit; whenever a packet that
\* starts a unit and alone is a complete PSI payload is added on a PID subject
\* to the completion check whose accumulator holds packets, the unit yielded
\* holds only that packet, and the packets held before are neither kept nor
\* given back to the packet pool.
C29_WholeUnitAlwaysReplacesHeld ==
    /\ OneUnit
    /\ WholeUnitOnHeld =>
          /\ ret.pl = ret.p
          /\ Acc(ret.p[1].PID) = <<>>
          /\ add(ret.before, ret.p[1].PID, programMap, ret.p[1]).released = <<>>

\* C29 (amended): an add yields at most one unit; when such a packet is in
\* order after the packets held, the unit yielded holds only that packet and
\* the packets held before are neither kept nor given back to the packet
\* pool; when it repeats the counter of the last packet held it is dropped and
\* nothing is yielded; when it is discontinuous the unit yielded holds only
\* that packet and the packets held before are given back to the packet pool.
C29_WholeUnitReplacesHeld ==
    /\ OneUnit
    /\ WholeUnitOnHeld =>
          LET p == ret.p[1]
              r == add(ret.before, p.PID, programMap, p)
          IN  /\ InOrder(ret.before, p) =>
                    (ret.pl = ret.p /\ Acc(p.PID) = <<>> /\ r.released = <<>>)
              /\ isSameAsPrevious(Last(ret.before), p) =>
                    (ret.pl = <<>> /\ Acc(p.PID) = ret.before /\ r.released = <<>>)
              /\ (~isSameAsPrevious(Last(ret.before), p) /\ ~InOrder(ret.before, p)) =>
                    (ret.pl = ret.p /\ Acc(p.PID) = <<>> /\ r.released = ret.before)

\* two packets were held on PID 0 when a whole PAT in order after them was
\* added: it was yielded alone and nothing is held
C29_Witness ==
    /\ WholeUnitOnHeld
    /\ InOrder(ret.before, ret.p[1])
    /\ Len(ret.before) = 2
    /\ ret.pl = ret.p
    /\ Acc(ret.p[1].PID) = <<>>

\* C30: no step of the demuxer takes a PID out of the program map or changes
\* nothing but its number there: Rewind empties the FIFO, drops the packet
\* buffer and starts a new packet pool but leaves the program map as it is,
\* so a PID once in the program map is classified as PSI and undergoes the
\* completion check ever after, also for the packets read after a Rewind.
C30_ProgramMapOnlyGrows ==
    [][ /\ \A pid \in DOMAIN programMap :
              /\ pid \in DOMAIN programMap'
              /\ isPSIPayload(pid, programMap')
              /\ psiChecked(pid, programMap')
        /\ Rewind => /\ programMap' = programMap
                      /\ dataBuffer' = <<>>
                      /\ b' = << >>
                      /\ skipErrCounter' = 0
                      /\ out'.op = "Rewind" ]_vars

\* a NextData call made after a Rewind has read a packet on PID 256, which a
\* PAT read before the Rewind had put in the program map
C30_Witness ==
    /\ rewinds = 1
    /\ reader.seeker
    /\ pc = "loop"
    /\ reads > 0
    /\ ret.op = "add"
    /\ ret.p[1].PID = 256
    /\ ~ret.seen
    /\ 256 \in DOMAIN programMap

====
